---- MODULE Spec2Model ----
(***************************************************************************)
(* Model of the tiling / parallel-workspace orchestration of               *)
(* mundialis/m.neural_network:                                             *)
(*   m.neural_network.preparedata        (grid + null check + exports)     *)
(*   m.neural_network.preparedata_part1  (same, newer revision, flags)     *)
(*   m.neural_network.preparetraining    (label rasterization batch)       *)
(* and of their worker processes.  The queue is pygrass'                   *)
(* ParallelModuleQueue as the orchestrators use it (put / wait /           *)
(* get_finished_modules), the helpers are grass_gis_helpers'               *)
(* check_parallel_errors, verify_mapsets, general_cleanup and              *)
(* switch_to_new_mapset, modelled at their call sites.                     *)
(*                                                                         *)
(* Arithmetic is exact: map units are integer multiples of one unit, so    *)
(* binary floating point rounding of coordinates is outside the model.     *)
(* Spec assumes that Module(...) construction and process start never      *)
(* raise; the only exception of a batch is the CalledModuleError that      *)
(* Module.wait() raises for a task that exited non-zero.                   *)
(***************************************************************************)
EXTENDS Integers, Sequences, FiniteSets, TLC

VARIABLES
    cfg,              \* options / flags of the run (immutable after Init)
    pc,               \* where main() of the orchestrator is
    batch,            \* the batch whose queue is current
    waitRet,          \* where queue.wait() returns to: inside put() or after the loop
    features,         \* geojson_dict["features"]
    idx,              \* loop counter: row-major tile counter / position in the list iterated
    north, west,      \* running tile origin of the grid loop
    tasks,            \* every Module put in a queue so far (worker processes)
    qlist,            \* ParallelModuleQueue._list (task ids of the running chunk)
    finished,         \* ParallelModuleQueue._finished_modules of the current queue
    possible_tr_data, tiles_with_data, tiles_wo_data,
    tr_tiles, ap_tiles,
    rm_dirs,          \* directories the exit cleanup removes
    dirs,             \* mapset directories (and output dir) that exist on disk
    gisrcs,           \* temporary GISRC files that exist (one per worker process)
    curMapset,        \* MAPSET of the orchestrator's GISRC
    verified,         \* history: mapset seen by each passed verify_mapsets, by batch
    warnings,         \* grass.warning calls of the orchestrator
    fatalMsg,         \* argument of grass.fatal, <<>> if none
    tindex,           \* the tile index written by export_tindex
    wind,             \* WIND (current region) of each mapset directory that exists
    raised,           \* history: the batches whose dispatch loop raised an exception
    worker,           \* one worker process seen from inside: globals, environment, files
    patch,            \* the run of postprocessing.patch
    vect              \* the run of postprocessing.vectorize

main_vars == << cfg, pc, batch, waitRet, features, idx, north, west, tasks, qlist,
                finished, possible_tr_data, tiles_with_data, tiles_wo_data,
                tr_tiles, ap_tiles, rm_dirs, dirs, gisrcs, curMapset, verified,
                warnings, fatalMsg, tindex, wind, raised >>

vars == << main_vars, worker, patch, vect >>

(***************************************************************************)
(* Bounds of the model.                                                    *)
(***************************************************************************)
MaxRows == 4          \* scene rows / cols of the planner specification
MaxTileSize == 3      \* tile_size (and tile_overlap) of the planner specification
MaxRes == 2           \* cell resolution, in map units
MaxCols == 3          \* scene columns of the pipeline specification
MaxTilePipe == 2      \* largest tile_size of the pipeline specification
MaxProcs == 2         \* nprocs of the pipeline specification
MaxWorkerIds == 2      \* largest tile id of the worker-process specification
MaxTrain == 2         \* training tiles read by preparetraining
MaxDigit == 2         \* largest digit of a class value of the label check
MaxFeatures == 2      \* features of a label file of the label check
MaxPatchTiles == 3    \* tiles in a row of the patcher specification
MaxPatchTileSize == 4 \* largest tile_size of the patcher specification
MaxEdgeCut == 2       \* largest edge_cut of the patcher specification
MinClump == 2         \* area threshold of the patcher and the vectorizer, in positions
MaxVectPos == 3       \* positions of the vectorizer specification
MaxClass == 2         \* classes of the vectorizer specification

(***************************************************************************)
(* Python helpers.                                                         *)
(***************************************************************************)
\* Python 3 round() of the rational num/den (den > 0): half to even.
PyRound(num, den) ==
    LET q == num \div den
        r2 == 2 * (num - q * den)
    IN  IF r2 < den THEN q
        ELSE IF r2 > den THEN q + 1
        ELSE IF q % 2 = 0 THEN q ELSE q + 1

\* len(str(n)) for an integer n (a minus sign counts as a character).
RECURSIVE Digits(_)
Digits(n) == IF n < 10 THEN 1 ELSE 1 + Digits(n \div 10)

StrLen(n) == IF n < 0 THEN 1 + Digits(-n) ELSE Digits(n)

Max2(a, b) == IF a >= b THEN a ELSE b

Min2(a, b) == IF a <= b THEN a ELSE b

RECURSIVE Pow10(_)
Pow10(k) == IF k = 0 THEN 1 ELSE 10 * Pow10(k - 1)

Range(s) == { s[k] : k \in 1..Len(s) }

\* ceil(a / b) for a >= 0, b > 0
Ceil(a, b) == (a + b - 1) \div b

(***************************************************************************)
(* GridPlanner: preparedata.py 220-312, preparedata_part1.py 335-430.      *)
(***************************************************************************)
Step(c) == c.tile_size - c.tile_overlap

\* round(n / (tile_size - tile_overlap) + 0.5); the caller excludes Step = 0
NumTiles(n, step) ==
    IF step > 0 THEN PyRound(2 * n + step, 2 * step)
    ELSE PyRound(-(2 * n + step), -(2 * step))

num_tiles_row(c) == NumTiles(c.rows, Step(c))
num_tiles_col(c) == NumTiles(c.cols, Step(c))
num_zeros(c) == Max2(StrLen(num_tiles_row(c)), StrLen(num_tiles_col(c)))
num_tiles_total(c) == num_tiles_col(c) * num_tiles_row(c)

\* range(n) has max(n, 0) elements
RangeLen(n) == IF n > 0 THEN n ELSE 0

tile_size_map_units(c) == c.tile_size * c.res
tile_overlap_map_units(c) == c.tile_overlap * c.res

\* the region after g.region raster=<first band>: west = 0, south = 0
RegN(c) == c.rows * c.res
RegW(c) == 0

\* tile_id = row_str + col_str, both zero-filled to num_zeros characters: two
\* ids are the same string iff they have the same value as decimal numbers
TileId(c, row, col) == row * Pow10(num_zeros(c)) + col

\* a planner that forgets the overlap when it advances
NextWestNoOverlap(c, w) == w + tile_size_map_units(c)

\* "west += ..." after a tile
NextWest(c, w) == w + tile_size_map_units(c) - tile_overlap_map_units(c)

\* "north -= ..." after a row
NextNorth(c, n) == n - (tile_size_map_units(c) - tile_overlap_map_units(c))

\* the feature of tile (row, col) with upper left corner (w, n)
Feat(c, row, col, n, w) ==
    [ fid |-> TileId(c, row, col),
      name |-> << row, col >>,
      path |-> << >>,
      training |-> "false",
      n |-> n,
      s |-> n - tile_size_map_units(c),
      e |-> w + tile_size_map_units(c),
      w |-> w ]

\* the placeholder feature preparedata_part1 allocates the list with
TodoFeat ==
    [ fid |-> -1, name |-> << -1, -1 >>, path |-> << >>, training |-> "false",
      n |-> 99999, s |-> 99999, e |-> 99999, w |-> 99999 ]

InitFeatures(c) ==
    IF c.module = "preparedata_part1"
    THEN [ k \in 1..RangeLen(num_tiles_total(c)) |-> TodoFeat ]
    ELSE << >>

\* number of iterations of the two nested loops
GridIterations(c) == RangeLen(num_tiles_row(c)) * RangeLen(num_tiles_col(c))

RowOf(c, k) == k \div RangeLen(num_tiles_col(c))
ColOf(c, k) == k % RangeLen(num_tiles_col(c))

(***************************************************************************)
(* Initial states.                                                         *)
(***************************************************************************)
Modules == { "preparedata", "preparedata_part1", "preparetraining" }

\* -t / -a exist in preparedata_part1 only and exclude train_percentage
Flags(m) == IF m = "preparedata_part1" THEN { "none", "t", "a" } ELSE { "none" }

TrainPercentages == { 0, 50, 100 }

CfgOf(m, f, r, c, ts, ov, rs, p, np, nt, ex) ==
    [ module |-> m, flag |-> f, rows |-> r, cols |-> c, tile_size |-> ts,
      tile_overlap |-> ov, res |-> rs, train_percentage |-> p, nprocs |-> np,
      ntrain |-> nt, output_exists |-> ex, labels |-> << >> ]

\* configurations of the planner specification: every scene and tile geometry
GridCfgs ==
    { CfgOf("preparedata_part1", "none", r, c, ts, ov, rs, 50, 1, 0, FALSE) :
        r \in 1..MaxRows, c \in 1..MaxRows, ts \in 1..MaxTileSize,
        ov \in 0..MaxTileSize, rs \in 1..MaxRes }

\* configurations of the pipeline specification: the two tilers on a scene
\* two tiles high (tile_overlap 0, resolution 1), and preparetraining on
\* ntrain training tiles
PipeCfgs ==
    { CfgOf(m, f, 2 * ts, c, ts, 0, 1, p, np, 0, FALSE) :
        m \in { "preparedata", "preparedata_part1" }, f \in { "none", "t", "a" },
        ts \in 2..MaxTilePipe, c \in 1..MaxCols, p \in TrainPercentages,
        np \in 1..MaxProcs }

\* what the label file of a training tile holds in class_column: values of
\* class_values and no_class_value only, or also another value
LabelFiles(nt) == [ 1..nt -> { "expected", "unexpected" } ]

TrainCfgs ==
    UNION { { [ CfgOf("preparetraining", "none", 1, 1, 1, 0, 1, 0, np, nt, ex)
                  EXCEPT !.labels = l ] : l \in LabelFiles(nt) } :
            np \in 1..MaxProcs, nt \in 0..MaxTrain, ex \in BOOLEAN }

\* lines 252-257 of preparedata_part1: the flags override the option
train_percentage(c) ==
    IF c.flag = "a" THEN 0 ELSE IF c.flag = "t" THEN 100 ELSE c.train_percentage

\* the computational region the user has set before the run: some window
\* that is not the extent of the scene
UserRegion == [ n |-> 0, s |-> 0 - 1, e |-> 0, w |-> 0 - 1, res |-> 1 ]

\* the region of the first image band: the extent and resolution of the scene
RasterRegion(c) ==
    [ n |-> RegN(c), s |-> 0, e |-> c.cols * c.res, w |-> RegW(c), res |-> c.res ]

\* the mapset the session is in when the orchestrator starts
SessionMapset == << "base" >>

\* the regions of the orchestrator's mapset: the current one (WIND) and the
\* one saved under the name ORIG_REGION (<< >> while there is none)
RegionsOf(cur) == [ cur |-> cur, saved |-> << >> ]

\* g.region save=ORIG_REGION
SaveRegion(rs) == [ rs EXCEPT !.saved = << rs.cur >> ]

\* g.region raster=... / n= s= e= w=
SetRegion(rs, reg) == [ rs EXCEPT !.cur = reg ]

\* an exit cleanup that is handed no region name (ORIG_REGION still None)
RestoreSkipped(rs) == rs

\* general_cleanup(orig_region=ORIG_REGION): the saved region becomes the
\* current one again and the saved one is removed; nothing for None
RestoreRegion(rs) ==
    IF rs.saved = << >> THEN rs ELSE [ cur |-> rs.saved[1], saved |-> << >> ]

InitWith(c) ==
    /\ cfg = c
    /\ pc = "start"
    /\ batch = "none"
    /\ waitRet = "none"
    /\ features = << >>
    /\ idx = 0
    /\ north = 0
    /\ west = 0
    /\ tasks = << >>
    /\ qlist = << >>
    /\ finished = << >>
    /\ possible_tr_data = << >>
    /\ tiles_with_data = << >>
    /\ tiles_wo_data = << >>
    /\ tr_tiles = << >>
    /\ ap_tiles = << >>
    /\ rm_dirs = << >>
    /\ dirs = IF c.output_exists THEN { << "output" >> } ELSE { }
    /\ gisrcs = { }
    /\ curMapset = SessionMapset
    /\ verified = << >>
    /\ warnings = << >>
    /\ fatalMsg = << >>
    /\ tindex = [ exported |-> FALSE, features |-> << >> ]
    /\ wind = (SessionMapset :> RegionsOf(UserRegion))
    /\ raised = << >>

\* the variables of the other programs while one program runs
NoWorker == [ phase |-> "none" ]
NoPatch == [ phase |-> "none" ]
NoVect == [ phase |-> "none" ]

InitGrid ==
    /\ \E c \in GridCfgs : InitWith(c)
    /\ worker = NoWorker /\ patch = NoPatch /\ vect = NoVect

Init ==
    \E c \in PipeCfgs \cup TrainCfgs :
        /\ c.flag \in Flags(c.module)
        /\ (c.flag # "none") => c.train_percentage = 0
        /\ InitWith(c)
        /\ worker = NoWorker /\ patch = NoPatch /\ vect = NoVect

(***************************************************************************)
(* main() up to the grid loop, and the grid loop of preparedata_part1.     *)
(***************************************************************************)
IsTiler == cfg.module \in { "preparedata", "preparedata_part1" }

\* lines 191-246 / 248-382: read the options, save and set the region, compute
\* the tile counts.  tile_size = tile_overlap divides by zero.
Start ==
    /\ pc = "start"
    /\ IsTiler
    /\ IF Step(cfg) = 0
       THEN /\ pc' = "crashed"
            /\ UNCHANGED << features, north, west, batch >>
       ELSE /\ pc' = "grid"
            /\ features' = InitFeatures(cfg)
            /\ north' = RegN(cfg)
            /\ west' = RegW(cfg)
            /\ batch' = IF cfg.module = "preparedata" THEN "nullcheck" ELSE "none"
    /\ wind' = [ wind EXCEPT ![SessionMapset] = SetRegion(SaveRegion(@), RasterRegion(cfg)) ]
    /\ UNCHANGED << cfg, waitRet, idx, tasks, qlist, finished, possible_tr_data,
                    tiles_with_data, tiles_wo_data, tr_tiles, ap_tiles, rm_dirs,
                    dirs, gisrcs, curMapset, verified, warnings, fatalMsg, tindex,
                    raised >>
    /\ UNCHANGED << worker, patch, vect >>

\* one iteration of the inner loop, preparedata_part1.py 383-430
GridStep ==
    /\ pc = "grid"
    /\ cfg.module = "preparedata_part1"
    /\ IF idx < GridIterations(cfg)
       THEN LET row == RowOf(cfg, idx)
                col == ColOf(cfg, idx)
                w == IF col = 0 THEN RegW(cfg) ELSE west
            IN  /\ features' = [ features EXCEPT ![idx + 1] = Feat(cfg, row, col, north, w) ]
                /\ west' = NextWest(cfg, w)
                /\ north' = IF col = RangeLen(num_tiles_col(cfg)) - 1
                            THEN NextNorth(cfg, north) ELSE north
                /\ idx' = idx + 1
                /\ UNCHANGED << pc, batch >>
       ELSE /\ idx' = 0
            /\ pc' = IF cfg.flag = "a" THEN "split" ELSE "dispatch"
            /\ batch' = IF cfg.flag = "a" THEN "none" ELSE "nullcheck"
            /\ UNCHANGED << features, west, north >>
    /\ UNCHANGED << cfg, waitRet, tasks, qlist, finished, possible_tr_data,
                    tiles_with_data, tiles_wo_data, tr_tiles, ap_tiles, rm_dirs,
                    dirs, gisrcs, curMapset, verified, warnings, fatalMsg, tindex,
                    wind, raised >>
    /\ UNCHANGED << worker, patch, vect >>

(***************************************************************************)
(* Worker processes and the ParallelModuleQueue.                           *)
(***************************************************************************)
None == 0 - 1            \* Python None for a return code / a count not yet known

\* tile_size * tile_size: the null count of a tile without any data
FullNull(c) == c.tile_size * c.tile_size

\* cells of the tile window of feature f that lie outside the scene raster
\* (rows x cols cells of size res, lower left corner at 0,0): they are null
CellsOutside(c, f) ==
    LET xin == Max2(0, Min2(f.e, c.cols * c.res) - Max2(f.w, 0)) \div c.res
        yin == Max2(0, Min2(f.n, c.rows * c.res) - Max2(f.s, 0)) \div c.res
    IN  FullNull(c) - xin * yin

\* what r.univar can report for the tile of feature f: the cells outside the
\* raster are null, each cell inside may be; one value stands for "some"
NullValues(c, f) ==
    { CellsOutside(c, f), Max2(1, CellsOutside(c, f)), FullNull(c) }

\* the region a worker has not set or read yet
NoRegion == [ n |-> 0, s |-> 0, e |-> 0, w |-> 0, res |-> 0 ]

\* g.mapset -c: the WIND of a mapset just created is the default region of
\* the location (here: the extent of the scene raster)
DefaultWind(c) ==
    [ n |-> RegN(c), s |-> 0, e |-> c.cols * c.res, w |-> RegW(c), res |-> c.res ]

\* a null check that leaves the region of its mapset as it found it
GRegionSkipped(c, f) == DefaultWind(c)

\* g.region n= s= e= w= res= of the null-check worker, with the bounds of
\* the tile and the resolution the orchestrator hands over
GRegion(c, f) == [ n |-> f.n, s |-> f.s, e |-> f.e, w |-> f.w, res |-> c.res ]

\* m.neural_network.preparedata_part1.worker_export is handed n, s, e, w and
\* res of its tile and sets its region from them
Part1ExportRegion(c, f) == [ n |-> f.n, s |-> f.s, e |-> f.e, w |-> f.w, res |-> c.res ]

\* the WIND files that are left when only the directories d exist
WindIn(w, d) == [ m \in { x \in DOMAIN w : x \in d \/ x = SessionMapset } |-> w[m] ]

\* the WIND file of mapset m is written
SetWind(w, m, reg) == [ x \in (DOMAIN w) \cup { m } |-> IF x = m THEN reg ELSE w[x] ]

\* a mapset name without the tile id in it
MapsetOfRun(fid) == << "tmp_mapset", 0 >>

\* new_mapset = f"tmp_mapset_{ID}_{tile_id}" (tilers),
\*              f"tmp_mapset_{tiledict['id']}_{ID}" (preparetraining)
MapsetOf(fid) == << "tmp_mapset", fid >>

\* stderr_ = grass.PIPE is set for every worker but the apply export
StderrPiped(b) == b # "apply"

NewTask(b, num, fid) ==
    [ kind |-> b, num |-> num, mapset |-> MapsetOf(fid), st |-> "started",
      exit |-> None, returncode |-> None, null_cells |-> None,
      stderr |-> << >>, piped |-> StderrPiped(b), region |-> NoRegion ]

Running(t) == tasks[t].st # "exited"

\* m.neural_network.preparedata_part1.worker_export: each export task is
\* bound to a fresh workspace
Part1ExportIsNew == TRUE

\* switch_to_new_mapset(new_mapset) / (new_mapset, new=False)
IsNew(t) ==
    IF tasks[t].kind \in { "nullcheck", "label" } THEN TRUE
    ELSE IF cfg.module = "preparedata" THEN FALSE
    ELSE Part1ExportIsNew

\* atexit.register(cleanup) in the worker's __main__
Registered(kind) == kind = "label"

\* "new_mapset" is the only state a worker's cleanup removes beside its GISRC
\* copy; cleanup() raises at os.environ["GISRC"] = None when the switch did
\* not return (its globals are still None) and then removes nothing
CleanupDirs(t, switched) ==
    IF Registered(tasks[t].kind) /\ switched THEN dirs \ { tasks[t].mapset } ELSE dirs

CleanupGisrcs(t, switched, files) ==
    IF Registered(tasks[t].kind) /\ switched THEN files \ { t } ELSE files

\* the worker script is compiled before any statement of it runs: line 100
\* of preparetraining.worker, "def cleanup(): -> None", is a SyntaxError
Compiles(kind) == kind # "label"

\* a script that does not compile: python ends with exit code 1 and the
\* error on stderr, no mapset and no GISRC copy have been created
WorkerSyntaxError(t) ==
    /\ t \in 1..Len(tasks)
    /\ tasks[t].st = "started"
    /\ ~Compiles(tasks[t].kind)
    /\ tasks' = [ tasks EXCEPT ![t].st = "exited", ![t].exit = 1,
                               ![t].stderr = << "stderr", t >> ]
    /\ UNCHANGED << cfg, pc, batch, waitRet, features, idx, north, west, qlist,
                    finished, possible_tr_data, tiles_with_data, tiles_wo_data,
                    tr_tiles, ap_tiles, rm_dirs, dirs, gisrcs, curMapset,
                    verified, warnings, fatalMsg, tindex,
                    wind, raised >>
    /\ UNCHANGED << worker, patch, vect >>

\* switch_to_new_mapset succeeds: GISRC copy written, mapset created (new)
\* or entered (new=False; g.mapset fails when the mapset does not exist)
WorkerSwitch(t) ==
    /\ t \in 1..Len(tasks)
    /\ tasks[t].st = "started"
    /\ Compiles(tasks[t].kind)
    /\ IF IsNew(t) \/ tasks[t].mapset \in dirs
       THEN /\ tasks' = [ tasks EXCEPT ![t].st = "switched" ]
            /\ dirs' = dirs \cup { tasks[t].mapset }
            /\ wind' = IF IsNew(t) THEN SetWind(wind, tasks[t].mapset, DefaultWind(cfg))
                        ELSE wind
            /\ gisrcs' = gisrcs \cup { t }
       ELSE /\ tasks' = [ tasks EXCEPT ![t].st = "exited", ![t].exit = 1,
                                       ![t].stderr = << "stderr", t >> ]
            /\ dirs' = CleanupDirs(t, FALSE)
            /\ wind' = WindIn(wind, dirs')
            /\ gisrcs' = CleanupGisrcs(t, FALSE, gisrcs \cup { t })
    /\ UNCHANGED << cfg, pc, batch, waitRet, features, idx, north, west, qlist,
                    finished, possible_tr_data, tiles_with_data, tiles_wo_data,
                    tr_tiles, ap_tiles, rm_dirs, curMapset, verified, warnings,
                    fatalMsg, tindex, raised >>
    /\ UNCHANGED << worker, patch, vect >>

\* g.mapset fails inside switch_to_new_mapset (after try_rmdir and the GISRC
\* copy): the worker dies with its globals unset
WorkerSwitchFail(t) ==
    /\ t \in 1..Len(tasks)
    /\ tasks[t].st = "started"
    /\ Compiles(tasks[t].kind)
    /\ tasks' = [ tasks EXCEPT ![t].st = "exited", ![t].exit = 1,
                               ![t].stderr = << "stderr", t >> ]
    /\ dirs' = IF IsNew(t) THEN dirs \ { tasks[t].mapset } ELSE dirs
    /\ wind' = WindIn(wind, dirs')
    /\ gisrcs' = CleanupGisrcs(t, FALSE, gisrcs \cup { t })
    /\ UNCHANGED << cfg, pc, batch, waitRet, features, idx, north, west, qlist,
                    finished, possible_tr_data, tiles_with_data, tiles_wo_data,
                    tr_tiles, ap_tiles, rm_dirs, curMapset, verified, warnings,
                    fatalMsg, tindex, raised >>
    /\ UNCHANGED << worker, patch, vect >>

\* does the worker set its region itself?  (the null checks: g.region with
\* the tile bounds; preparedata.worker_export has no g.region call)
SetsRegion(t) ==
    \/ tasks[t].kind = "nullcheck"
    \/ tasks[t].kind \in { "train", "apply" } /\ cfg.module = "preparedata_part1"

\* the region a worker that sets one sets
RegionSetBy(t) ==
    IF tasks[t].kind = "nullcheck"
    THEN GRegion(cfg, features[tasks[t].num + 1])
    ELSE Part1ExportRegion(cfg, features[tasks[t].num + 1])

\* the rest of the worker's main(): it ends with exit code 0 (a null check
\* then has written its null count to stdout) or with an error of one of the
\* tools that follow its g.region call; the tools run with the region found
\* in the WIND file of the worker's mapset and fail when the mapset has been
\* removed.  "region" records the region a worker that succeeded ran with
WorkerExit(t) ==
    /\ t \in 1..Len(tasks)
    /\ tasks[t].st = "switched"
    /\ \E ok \in BOOLEAN :
      \E nc \in IF tasks[t].kind = "nullcheck" /\ ok
                THEN NullValues(cfg, features[tasks[t].num + 1]) ELSE { 0 } :
        LET m == tasks[t].mapset
            written == IF SetsRegion(t) /\ m \in dirs
                       THEN SetWind(wind, m, RegionSetBy(t)) ELSE wind
        IN  /\ ok => m \in dirs
            /\ tasks' = [ tasks EXCEPT
                            ![t].st = "exited",
                            ![t].exit = IF ok THEN 0 ELSE 1,
                            ![t].null_cells = IF ok /\ tasks[t].kind = "nullcheck" THEN nc ELSE None,
                            ![t].stderr = IF ok THEN << >> ELSE << "stderr", t >>,
                            ![t].region = IF ok THEN written[m] ELSE NoRegion ]
            /\ dirs' = CleanupDirs(t, TRUE)
            /\ wind' = WindIn(written, dirs')
    /\ gisrcs' = CleanupGisrcs(t, TRUE, gisrcs)
    /\ UNCHANGED << cfg, pc, batch, waitRet, features, idx, north, west, qlist,
                    finished, possible_tr_data, tiles_with_data, tiles_wo_data,
                    tr_tiles, ap_tiles, rm_dirs, curMapset, verified, warnings,
                    fatalMsg, tindex, raised >>
    /\ UNCHANGED << worker, patch, vect >>

\* the context leak verify_mapsets looks for: the session's GISRC file is
\* shared with whatever else runs in the session, and its MAPSET is changed
\* (here to the mapset of a running worker) while a batch runs; which
\* worker's mapset it is makes no difference to verify_mapsets, so one name
\* stands for each of them
LeakedMapset == << "tmp_mapset" >>

MapsetDrift(t) ==
    /\ t \in 1..Len(tasks)
    /\ tasks[t].st = "switched"
    /\ curMapset = << "base" >>
    /\ curMapset' = LeakedMapset
    /\ UNCHANGED << cfg, pc, batch, waitRet, features, idx, north, west, tasks,
                    qlist, finished, possible_tr_data, tiles_with_data,
                    tiles_wo_data, tr_tiles, ap_tiles, rm_dirs, dirs, gisrcs,
                    verified, warnings, fatalMsg, tindex,
                    wind, raised >>
    /\ UNCHANGED << worker, patch, vect >>

(***************************************************************************)
(* ParallelModuleQueue.put / wait and the handling of a failed batch.      *)
(***************************************************************************)
MinOf(S) == CHOOSE x \in S : \A y \in S : x <= y

\* a queue that never waits inside put()
ChunkFullNever(count) == FALSE

\* ParallelModuleQueue(nprocs=nprocs): put() waits when the count of started
\* processes of the chunk has reached nprocs
ChunkFull(count) == count = cfg.nprocs

\* queue.put(module): the process is started; a full chunk is waited for
\* inside put() before the loop goes on
PutEffect(task, loopPc) ==
    /\ tasks' = Append(tasks, task)
    /\ qlist' = Append(qlist, Len(tasks) + 1)
    /\ IF ChunkFull(Len(qlist) + 1)
       THEN pc' = "wait" /\ waitRet' = loopPc
       ELSE pc' = loopPc /\ UNCHANGED waitRet

\* outputs["stderr"].value of a waited module
CapturedStderr(task) == IF task.piped THEN task.stderr ELSE << >>

\* check_parallel_errors(queue) reports a failed process of the chunk
FailedProcs(ts) == { k \in 1..Len(qlist) : ts[qlist[k]].returncode # 0 }

\* "except Exception: check_parallel_errors(queue)": fatal for the first
\* process of the chunk with a return code other than 0, else main() goes on
\* after the try statement
CheckParallelErrors(ts) ==
    IF FailedProcs(ts) # { }
    THEN /\ pc' = "fatal"
         /\ fatalMsg' = << "ERROR by processing", qlist[MinOf(FailedProcs(ts))],
                           CapturedStderr(ts[qlist[MinOf(FailedProcs(ts))]]) >>
         /\ UNCHANGED << qlist, waitRet >>
    ELSE /\ pc' = "verify"
         /\ UNCHANGED << fatalMsg, qlist, waitRet >>

\* may wait() return from a module whose process is in state st?
\* (Popen.communicate() returns when the process has ended)
WaitReturnsAnyState(st) == TRUE

WaitReturns(st) == st = "exited"

\* queue.wait(): Module.wait() of each process of the chunk in list order;
\* it raises CalledModuleError for a process that exited non-zero, and the
\* processes behind it in the list are then not waited for
Wait ==
    /\ pc = "wait"
    /\ LET pending == { k \in 1..Len(qlist) : tasks[qlist[k]].returncode = None }
       IN  IF pending = { }
           THEN /\ qlist' = << >>
                /\ pc' = waitRet
                /\ waitRet' = "none"
                /\ UNCHANGED << tasks, finished, fatalMsg >>
           ELSE LET k == MinOf(pending)
                    t == qlist[k]
                    rc == IF tasks[t].exit = None THEN 0 ELSE tasks[t].exit
                    nt == [ tasks EXCEPT ![t].returncode = rc ]
                IN  /\ WaitReturns(tasks[t].st)
                    /\ tasks' = nt
                    /\ IF rc = 0
                       THEN /\ finished' = Append(finished, t)
                            /\ IF k = Len(qlist)
                               THEN qlist' = << >> /\ pc' = waitRet /\ waitRet' = "none"
                               ELSE UNCHANGED << qlist, pc, waitRet >>
                            /\ UNCHANGED fatalMsg
                       ELSE /\ CheckParallelErrors(nt)
                            /\ UNCHANGED finished
    /\ UNCHANGED << cfg, batch, features, idx, north, west, possible_tr_data,
                    tiles_with_data, tiles_wo_data, tr_tiles, ap_tiles, rm_dirs,
                    dirs, gisrcs, curMapset, verified, warnings, tindex,
                    wind, raised >>
    /\ UNCHANGED << worker, patch, vect >>

\* verify_mapsets(cur_mapset) passes for the mapset m found in the GISRC
VerifyPassesAlways(m) == TRUE

VerifyPasses(m) == m = << "base" >>

\* verify_mapsets(cur_mapset) after a batch, and what follows it in main()
Verify ==
    /\ pc = "verify"
    /\ IF ~VerifyPasses(curMapset)
       THEN /\ pc' = "fatal"
            /\ fatalMsg' = << "New mapset is", curMapset >>
            /\ UNCHANGED << verified, batch, idx, qlist, finished >>
       ELSE /\ verified' = Append(verified, << batch, curMapset >>)
            /\ pc' = CASE batch = "nullcheck" -> "split"
                       [] batch = "train" -> "dispatch"
                       [] batch = "apply" -> "prune"
                       [] OTHER -> "finish"
            /\ batch' = IF batch = "train" THEN "apply" ELSE batch
            /\ idx' = IF batch = "train" THEN 0 ELSE idx
            /\ qlist' = IF batch = "train" THEN << >> ELSE qlist
            /\ finished' = IF batch = "train" THEN << >> ELSE finished
            /\ UNCHANGED fatalMsg
    /\ UNCHANGED << cfg, waitRet, features, north, west, tasks, possible_tr_data,
                    tiles_with_data, tiles_wo_data, tr_tiles, ap_tiles, rm_dirs,
                    dirs, gisrcs, curMapset, warnings, tindex,
                    wind, raised >>
    /\ UNCHANGED << worker, patch, vect >>

(***************************************************************************)
(* The null-check batch.                                                   *)
(***************************************************************************)
\* one iteration of the inner loop of preparedata.py 248-312: the tile's
\* null-check worker is put in the queue and its feature appended
GridDispatch ==
    /\ pc = "grid"
    /\ cfg.module = "preparedata"
    /\ IF idx < GridIterations(cfg)
       THEN LET row == RowOf(cfg, idx)
                col == ColOf(cfg, idx)
                w == IF col = 0 THEN RegW(cfg) ELSE west
                f == Feat(cfg, row, col, north, w)
            IN  /\ rm_dirs' = Append(rm_dirs, MapsetOf(f.fid))
                /\ PutEffect(NewTask("nullcheck", idx, f.fid), "grid")
                /\ features' = Append(features, f)
                /\ west' = NextWest(cfg, w)
                /\ north' = IF col = RangeLen(num_tiles_col(cfg)) - 1
                            THEN NextNorth(cfg, north) ELSE north
                /\ idx' = idx + 1
       ELSE /\ pc' = "wait"
            /\ waitRet' = "verify"
            /\ UNCHANGED << rm_dirs, tasks, qlist, features, west, north, idx >>
    /\ UNCHANGED << cfg, batch, finished, possible_tr_data, tiles_with_data,
                    tiles_wo_data, tr_tiles, ap_tiles, dirs, gisrcs, curMapset,
                    verified, warnings, fatalMsg, tindex,
                    wind, raised >>
    /\ UNCHANGED << worker, patch, vect >>

\* one iteration of preparedata_part1.py 464-492, then queue_nullcheck.wait()
DispatchNullcheck ==
    /\ pc = "dispatch"
    /\ batch = "nullcheck"
    /\ IF idx < Len(features)
       THEN LET f == features[idx + 1]
            IN  /\ rm_dirs' = Append(rm_dirs, MapsetOf(f.fid))
                /\ PutEffect(NewTask("nullcheck", idx, f.fid), "dispatch")
                /\ idx' = idx + 1
       ELSE /\ pc' = "wait"
            /\ waitRet' = "verify"
            /\ UNCHANGED << rm_dirs, tasks, qlist, idx >>
    /\ UNCHANGED << cfg, batch, features, north, west, finished, possible_tr_data,
                    tiles_with_data, tiles_wo_data, tr_tiles, ap_tiles, dirs,
                    gisrcs, curMapset, verified, warnings, fatalMsg, tindex,
                    wind, raised >>
    /\ UNCHANGED << worker, patch, vect >>

\* the iterations the dispatch loop of the current batch still has to run
LoopLeft ==
    CASE pc = "grid" /\ cfg.module = "preparedata" -> GridIterations(cfg) - idx
      [] pc = "dispatch" /\ batch = "nullcheck" -> Len(features) - idx
      [] pc = "dispatch" /\ batch = "train" -> Len(tr_tiles) - idx
      [] pc = "dispatch" /\ batch = "apply" -> Len(ap_tiles) - idx
      [] pc = "dispatch" /\ batch = "label" -> cfg.ntrain - idx
      [] OTHER -> 0

\* an iteration of a dispatch loop raises before its process exists (Module(...)
\* or Popen inside queue.put() raises): the statements of the iteration in
\* front of Module(...) have run, then "except Exception:
\* check_parallel_errors(queue)" of the batch runs
ModuleRaises ==
    /\ LoopLeft > 0
    /\ rm_dirs' = CASE pc = "grid" ->
                        Append(rm_dirs, MapsetOf(TileId(cfg, RowOf(cfg, idx), ColOf(cfg, idx))))
                     [] batch = "nullcheck" /\ pc = "dispatch" ->
                        Append(rm_dirs, MapsetOf(features[idx + 1].fid))
                     [] batch = "label" /\ pc = "dispatch" ->
                        Append(rm_dirs, MapsetOf(idx))
                     [] OTHER -> rm_dirs
    /\ features' = CASE batch = "train" /\ pc = "dispatch" ->
                         [ features EXCEPT
                             ![tr_tiles[idx + 1] + 1].training = "TODO",
                             ![tr_tiles[idx + 1] + 1].path =
                                 << "train", features[tr_tiles[idx + 1] + 1].name >> ]
                      [] batch = "apply" /\ pc = "dispatch" ->
                         [ features EXCEPT
                             ![ap_tiles[idx + 1] + 1].training = "no",
                             ![ap_tiles[idx + 1] + 1].path =
                                 << "apply", features[ap_tiles[idx + 1] + 1].name >> ]
                      [] OTHER -> features
    /\ raised' = Append(raised, batch)
    /\ CheckParallelErrors(tasks)
    /\ UNCHANGED << cfg, batch, idx, north, west, tasks, finished, possible_tr_data,
                    tiles_with_data, tiles_wo_data, tr_tiles, ap_tiles, dirs,
                    gisrcs, curMapset, verified, warnings, tindex, wind >>
    /\ UNCHANGED << worker, patch, vect >>

(***************************************************************************)
(* Aggregation of the null-check results and the train / apply split.      *)
(***************************************************************************)
\* sys.stdout.write(f"For tile {tile_name} the number of null cells is:
\* {stats['null_cells']}\n") after .strip().split(":"), the first part by words
Stdout(task) ==
    << << "For", "tile", task.num, "the", "number", "of", "null", "cells", "is" >>,
       << task.null_cells >> >>

\* num = int(stdout_strs[0].split(" ")[2])
ParsedNum(out, pos) == out[1][3]

\* null_cells = int(stdout_strs[1].strip())
ParsedNull(out) == out[2][1]

IsEligible(nc) == nc = 0
HasData(nc) == nc # FullNull(cfg)

\* which of the three lists a null count puts a tile in
Keep(list, nc) ==
    CASE list = "possible_tr_data" -> IsEligible(nc)
      [] list = "tiles_with_data" -> HasData(nc)
      [] OTHER -> ~HasData(nc)

\* the three lists of lines 319-331 / 498-510, in get_finished_modules() order
RECURSIVE Collect(_, _, _)
Collect(fin, pos, list) ==
    IF pos > Len(fin) THEN << >>
    ELSE LET out == Stdout(tasks[fin[pos]])
             rest == Collect(fin, pos + 1, list)
         IN  IF Keep(list, ParsedNull(out))
             THEN << ParsedNum(out, pos) >> \o rest ELSE rest

\* random.shuffle: every order of the list
Perms(seq) ==
    { q \in [ 1..Len(seq) -> Range(seq) ] :
        \A a, b \in 1..Len(seq) : a # b => q[a] # q[b] }

\* seq[:k] for k >= 0
Take(seq, k) == SubSeq(seq, 1, IF k < Len(seq) THEN k ELSE Len(seq))

\* num_tr_tiles of preparedata.py 334 (a share of the eligible tiles) and of
\* preparedata_part1.py 513-515 (a share of the grid, clamped)
RequestedTrTiles(c, eligible) ==
    IF c.module = "preparedata"
    THEN PyRound(train_percentage(c) * eligible, 100)
    ELSE PyRound(train_percentage(c) * num_tiles_total(c), 100)

NumTrTiles(c, eligible) ==
    IF c.module = "preparedata_part1" /\ eligible < RequestedTrTiles(c, eligible)
    THEN eligible
    ELSE RequestedTrTiles(c, eligible)

\* the warning of preparedata_part1.py 516-523 with true_train_percentage
SplitWarnings(c, eligible) ==
    IF c.module = "preparedata_part1" /\ eligible < RequestedTrTiles(c, eligible)
    THEN << << "train percentage is reduced to",
               PyRound(100 * eligible, num_tiles_total(c)) >> >>
    ELSE << >>

\* ap_tiles of preparedata.py 337 and preparedata_part1.py 531-534
ApTilesAll(c, withData, tr) == withData

ApTiles(c, withData, tr) ==
    IF c.module = "preparedata_part1" /\ train_percentage(c) = 100 THEN << >>
    ELSE SelectSeq(withData, LAMBDA x : x \notin Range(tr))

\* lines 319-337 of preparedata, 498-534 of preparedata_part1: aggregate the
\* results, split, and create the queue of the training export
\* a list that starts with the second tile
AllTilesButFirst(n) == [ k \in 1..Max2(n - 1, 0) |-> k ]

\* list(range(len(geojson_dict["features"]))) of the -a branch
AllTiles(n) == [ k \in 1..n |-> k - 1 ]

Split ==
    /\ pc = "split"
    /\ IF cfg.flag = "a"
       THEN /\ tiles_with_data' = AllTiles(Len(features))
            /\ tiles_wo_data' = << >>
            /\ tr_tiles' = << >>
            /\ possible_tr_data' = << >>
            /\ warnings' = warnings
       ELSE /\ tiles_with_data' = Collect(finished, 1, "tiles_with_data")
            /\ tiles_wo_data' = Collect(finished, 1, "tiles_wo_data")
            /\ warnings' = warnings \o
                   SplitWarnings(cfg, Len(Collect(finished, 1, "possible_tr_data")))
            /\ \E shuffled \in Perms(Collect(finished, 1, "possible_tr_data")) :
                /\ possible_tr_data' = shuffled
                /\ tr_tiles' = Take(shuffled, NumTrTiles(cfg, Len(shuffled)))
    /\ ap_tiles' = ApTiles(cfg, tiles_with_data', tr_tiles')
    /\ pc' = "dispatch"
    /\ batch' = "train"
    /\ idx' = 0
    /\ qlist' = << >>
    /\ finished' = << >>
    /\ UNCHANGED << cfg, waitRet, features, north, west, tasks, rm_dirs, dirs,
                    gisrcs, curMapset, verified, fatalMsg, tindex,
                    wind, raised >>
    /\ UNCHANGED << worker, patch, vect >>

(***************************************************************************)
(* The export batches, the pruning and the export of the tile index.       *)
(***************************************************************************)
\* one iteration of preparedata.py 341-373 / preparedata_part1.py 539-581
DispatchTrain ==
    /\ pc = "dispatch"
    /\ batch = "train"
    /\ IF idx < Len(tr_tiles)
       THEN LET tr_tile == tr_tiles[idx + 1]
                f == features[tr_tile + 1]
            IN  /\ features' = [ features EXCEPT
                                   ![tr_tile + 1].training = "TODO",
                                   ![tr_tile + 1].path = << "train", f.name >> ]
                /\ PutEffect(NewTask("train", tr_tile, f.fid), "dispatch")
                /\ idx' = idx + 1
       ELSE /\ pc' = "wait"
            /\ waitRet' = "verify"
            /\ UNCHANGED << features, tasks, qlist, idx >>
    /\ UNCHANGED << cfg, batch, north, west, finished, possible_tr_data,
                    tiles_with_data, tiles_wo_data, tr_tiles, ap_tiles, rm_dirs,
                    dirs, gisrcs, curMapset, verified, warnings, fatalMsg, tindex,
                    wind, raised >>
    /\ UNCHANGED << worker, patch, vect >>

\* one iteration of preparedata.py 382-404 / preparedata_part1.py 590-622
DispatchApply ==
    /\ pc = "dispatch"
    /\ batch = "apply"
    /\ IF idx < Len(ap_tiles)
       THEN LET ap_tile == ap_tiles[idx + 1]
                f == features[ap_tile + 1]
            IN  /\ features' = [ features EXCEPT
                                   ![ap_tile + 1].training = "no",
                                   ![ap_tile + 1].path = << "apply", f.name >> ]
                /\ PutEffect(NewTask("apply", ap_tile, f.fid), "dispatch")
                /\ idx' = idx + 1
       ELSE /\ pc' = "wait"
            /\ waitRet' = "verify"
            /\ UNCHANGED << features, tasks, qlist, idx >>
    /\ UNCHANGED << cfg, batch, north, west, finished, possible_tr_data,
                    tiles_with_data, tiles_wo_data, tr_tiles, ap_tiles, rm_dirs,
                    dirs, gisrcs, curMapset, verified, warnings, fatalMsg, tindex,
                    wind, raised >>
    /\ UNCHANGED << worker, patch, vect >>

Reverse(seq) == [ k \in 1..Len(seq) |-> seq[Len(seq) + 1 - k] ]

\* del list[num] (0-based)
DelAt(seq, num) == [ k \in 1..(Len(seq) - 1) |-> IF k <= num THEN seq[k] ELSE seq[k + 1] ]

\* "for num in tiles_wo_data: del features[num]"; ok is FALSE for an IndexError
RECURSIVE DelAll(_, _)
DelAll(feats, nums) ==
    IF nums = << >> THEN [ ok |-> TRUE, feats |-> feats ]
    ELSE IF Head(nums) >= Len(feats) THEN [ ok |-> FALSE, feats |-> feats ]
    ELSE DelAll(DelAt(feats, Head(nums)), Tail(nums))

\* the order the tiles without data are deleted in: tiles_wo_data.reverse()
DeletionOrderUnreversed(wo) == wo

DeletionOrder(wo) == Reverse(wo)

\* lines 410-416 / 628-634: remove the tiles without data, export the index
Prune ==
    /\ pc = "prune"
    /\ LET r == DelAll(features, DeletionOrder(tiles_wo_data))
       IN  IF r.ok
           THEN /\ features' = r.feats
                /\ tindex' = [ exported |-> TRUE, features |-> r.feats ]
                /\ pc' = "done"
           ELSE /\ pc' = "crashed"
                /\ UNCHANGED << features, tindex >>
    /\ tiles_wo_data' = DeletionOrder(tiles_wo_data)
    /\ UNCHANGED << cfg, batch, waitRet, idx, north, west, tasks, qlist, finished,
                    possible_tr_data, tiles_with_data, tr_tiles, ap_tiles, rm_dirs,
                    dirs, gisrcs, curMapset, verified, warnings, fatalMsg, wind, raised >>
    /\ UNCHANGED << worker, patch, vect >>

\* atexit: cleanup() -> general_cleanup(rm_dirs=rm_dirs, ...) removes every
\* directory of rm_dirs that exists
Cleanup ==
    /\ pc \in { "done", "fatal", "crashed" }
    /\ dirs' = dirs \ Range(rm_dirs)
    /\ wind' = WindIn(IF curMapset = SessionMapset
                      THEN [ wind EXCEPT ![SessionMapset] = RestoreRegion(@) ]
                      ELSE wind, dirs')
    /\ pc' = "exited"
    /\ UNCHANGED << cfg, batch, waitRet, features, idx, north, west, tasks, qlist,
                    finished, possible_tr_data, tiles_with_data, tiles_wo_data,
                    tr_tiles, ap_tiles, rm_dirs, gisrcs, curMapset, verified,
                    warnings, fatalMsg, tindex, raised >>
    /\ UNCHANGED << worker, patch, vect >>

(***************************************************************************)
(* preparetraining: the label rasterization batch.                         *)
(***************************************************************************)
OutputDir == << "output" >>

\* an output directory that is never handed to the exit cleanup
OutputNotRegistered(rm) == rm

\* line 227: rm_dirs.append(output)
RegisterOutput(rm) == Append(rm, OutputDir)

\* a check of the label files that lets every value pass
UnexpectedLabelsIgnored(labels) == { }

\* lines 260-277: the training tiles whose label file has a feature with a
\* value that is not in allowed_vals
UnexpectedLabels(labels) == { k \in 1..Len(labels) : labels[k] = "unexpected" }

\* lines 203-333: os.makedirs(output, exist_ok=False), rm_dirs.append(output),
\* reading of the tiles, check of the label values, validation split and
\* .vrt files
StartTraining ==
    /\ pc = "start"
    /\ cfg.module = "preparetraining"
    /\ IF OutputDir \in dirs
       THEN /\ pc' = "fatal"
            /\ fatalMsg' = << "Directory exists already" >>
            /\ UNCHANGED << dirs, rm_dirs, batch >>
       ELSE /\ dirs' = dirs \cup { OutputDir }
            /\ rm_dirs' = RegisterOutput(rm_dirs)
            /\ IF UnexpectedLabels(cfg.labels) # { }
               THEN /\ pc' = "fatal"
                    /\ fatalMsg' = << "contains unexpected value",
                                      MinOf(UnexpectedLabels(cfg.labels)) >>
                    /\ UNCHANGED batch
               ELSE /\ pc' = "dispatch"
                    /\ batch' = "label"
                    /\ UNCHANGED fatalMsg
    /\ wind' = [ wind EXCEPT ![SessionMapset] = SaveRegion(@) ]
    /\ UNCHANGED << cfg, waitRet, features, idx, north, west, tasks, qlist,
                    finished, possible_tr_data, tiles_with_data, tiles_wo_data,
                    tr_tiles, ap_tiles, gisrcs, curMapset, verified, warnings, tindex,
                    raised >>
    /\ UNCHANGED << worker, patch, vect >>

\* one iteration of lines 339-361, then queue.wait()
DispatchLabel ==
    /\ pc = "dispatch"
    /\ batch = "label"
    /\ IF idx < cfg.ntrain
       THEN /\ rm_dirs' = Append(rm_dirs, MapsetOf(idx))
            /\ PutEffect(NewTask("label", idx, idx), "dispatch")
            /\ idx' = idx + 1
       ELSE /\ pc' = "wait"
            /\ waitRet' = "verify"
            /\ UNCHANGED << rm_dirs, tasks, qlist, idx >>
    /\ UNCHANGED << cfg, batch, features, north, west, finished, possible_tr_data,
                    tiles_with_data, tiles_wo_data, tr_tiles, ap_tiles, dirs,
                    gisrcs, curMapset, verified, warnings, fatalMsg, tindex,
                    wind, raised >>
    /\ UNCHANGED << worker, patch, vect >>

\* rm_dirs.remove(output): the first occurrence
RemoveFirst(seq, x) ==
    LET k == MinOf({ j \in 1..Len(seq) : seq[j] = x })
    IN  SubSeq(seq, 1, k - 1) \o SubSeq(seq, k + 1, Len(seq))

\* lines 368-370: only keep the output if everything worked
FinishTraining ==
    /\ pc = "finish"
    /\ rm_dirs' = RemoveFirst(rm_dirs, OutputDir)
    /\ pc' = "done"
    /\ UNCHANGED << cfg, batch, waitRet, features, idx, north, west, tasks, qlist,
                    finished, possible_tr_data, tiles_with_data, tiles_wo_data,
                    tr_tiles, ap_tiles, dirs, gisrcs, curMapset, verified,
                    warnings, fatalMsg, tindex,
                    wind, raised >>
    /\ UNCHANGED << worker, patch, vect >>

(***************************************************************************)
(* One worker process seen from inside: the module globals, os.environ,    *)
(* the GISRC files and the mapset directories, and cleanup() called on it. *)
(***************************************************************************)
WorkerScripts ==
    { "preparedata.worker_nullcells", "preparedata_part1.worker_nullcells",
      "preparedata.worker_export", "preparetraining.worker" }

KindOfScript(script) ==
    CASE script = "preparedata.worker_export" -> "apply"
      [] script = "preparetraining.worker" -> "label"
      [] OTHER -> "nullcheck"

\* NEWGISRC = None, GISRC = None, NEW_MAPSET = None at module level
PyNone == << >>

\* the GISRC file of the session and the copy f"{gisrc}_{os.getpid()}"
SessionGisrc == << "gisrc" >>
GisrcCopy == << "gisrc", "pid" >>

\* "global NEW_MAPSET, NEWGISRC, GISRC" in main(); preparedata.worker_nullcells
\* has no global statement, its main() assigns locals
GlobalsDeclared(script) == script # "preparedata.worker_nullcells"

\* switch_to_new_mapset(NEW_MAPSET) or (NEW_MAPSET, new=False)
SwitchIsNew(script) == script # "preparedata.worker_export"

InitWorkerProc(script, id, exists) ==
    [ phase |-> "launched", script |-> script, new_mapset |-> MapsetOf(id),
      NEW_MAPSET |-> PyNone, GISRC |-> PyNone, NEWGISRC |-> PyNone,
      environ |-> SessionGisrc, files |-> { SessionGisrc },
      mapsets |-> IF exists THEN { MapsetOf(id) } ELSE { },
      calls |-> 0, raised |-> FALSE, first |-> << >> ]

\* what cleanup() leaves behind
Left(w) == << w.environ, w.files, w.mapsets >>

\* cleanup(): try_remove(NEWGISRC) swallows every error; os.environ["GISRC"]
\* = None raises TypeError; os.path.join(..., None) raises TypeError
cleanup(w) ==
    LET files1 == IF w.NEWGISRC # PyNone THEN w.files \ { w.NEWGISRC } ELSE w.files
    IN  IF w.GISRC = PyNone
        THEN [ w EXCEPT !.files = files1, !.raised = TRUE ]
        ELSE IF w.NEW_MAPSET = PyNone
        THEN [ w EXCEPT !.files = files1, !.environ = w.GISRC, !.raised = TRUE ]
        ELSE [ w EXCEPT !.files = files1, !.environ = w.GISRC,
                        !.mapsets = w.mapsets \ { w.NEW_MAPSET } ]

\* python cannot compile the script: nothing of it runs
ProcSyntaxError ==
    /\ worker.phase = "launched"
    /\ ~Compiles(KindOfScript(worker.script))
    /\ worker' = [ worker EXCEPT !.phase = "syntaxerror" ]
    /\ UNCHANGED << main_vars, patch, vect >>

\* main() up to the call of switch_to_new_mapset
ProcMain ==
    /\ worker.phase = "launched"
    /\ Compiles(KindOfScript(worker.script))
    /\ worker' = [ worker EXCEPT
                     !.phase = "main",
                     !.NEW_MAPSET = IF GlobalsDeclared(worker.script)
                                    THEN worker.new_mapset ELSE PyNone ]
    /\ UNCHANGED << main_vars, patch, vect >>

\* switch_to_new_mapset returns: mapset directory removed and created again
\* (new) or entered, GISRC copied, os.environ["GISRC"] set to the copy
ProcSwitch ==
    /\ worker.phase = "main"
    /\ worker.calls = 0
    /\ SwitchIsNew(worker.script) \/ worker.new_mapset \in worker.mapsets
    /\ worker' = [ worker EXCEPT
                     !.phase = "switched",
                     !.mapsets = worker.mapsets \cup { worker.new_mapset },
                     !.files = worker.files \cup { GisrcCopy },
                     !.environ = GisrcCopy,
                     !.GISRC = IF GlobalsDeclared(worker.script)
                               THEN SessionGisrc ELSE PyNone,
                     !.NEWGISRC = IF GlobalsDeclared(worker.script)
                                  THEN GisrcCopy ELSE PyNone ]
    /\ UNCHANGED << main_vars, patch, vect >>

\* g.mapset fails inside switch_to_new_mapset, which ends in grass.fatal:
\* the GISRC copy is written and in os.environ, nothing is returned
ProcSwitchFatal ==
    /\ worker.phase = "main"
    /\ worker.calls = 0
    /\ worker' = [ worker EXCEPT
                     !.phase = "switchfailed",
                     !.mapsets = IF SwitchIsNew(worker.script)
                                 THEN worker.mapsets \ { worker.new_mapset }
                                 ELSE worker.mapsets,
                     !.files = worker.files \cup { GisrcCopy },
                     !.environ = GisrcCopy ]
    /\ UNCHANGED << main_vars, patch, vect >>

\* the rest of main(), ended by its return or by an error
ProcEnd ==
    /\ worker.phase = "switched"
    /\ worker.calls = 0
    /\ worker' = [ worker EXCEPT !.phase = "ended" ]
    /\ UNCHANGED << main_vars, patch, vect >>

\* cleanup() is called (by an explicit handler, by the exit guard, or both);
\* main() does not go on after it
ProcCleanup ==
    /\ worker.phase \in { "main", "switched", "switchfailed", "ended" }
    /\ worker.calls < 2
    /\ LET w == cleanup(worker)
       IN  worker' = [ w EXCEPT !.calls = worker.calls + 1,
                                !.first = IF worker.calls = 0
                                          THEN << Left(w) >> ELSE worker.first ]
    /\ UNCHANGED << main_vars, patch, vect >>

(***************************************************************************)
(* TilePatcher: m.neural_network.postprocessing.patch and                  *)
(* m.neural_network.postprocessing_patch.  One row of tiles is followed    *)
(* along the east-west axis; positions are map units, position x is the    *)
(* strip [x, x + 1).  A raster is the function from the positions where it *)
(* is not null to its value there; a region is its west and east bound.    *)
(***************************************************************************)
PatchScripts == { "postprocessing.patch", "postprocessing_patch" }

\* east-west bounds of the k-th tile of a row of the grid (k = 0, 1, ...)
RECURSIVE TileWest(_, _)
TileWest(c, k) == IF k = 0 THEN RegW(c) ELSE NextWest(c, TileWest(c, k - 1))

TileExtent(c, k) == [ w |-> TileWest(c, k), e |-> TileWest(c, k) + tile_size_map_units(c) ]

Cells(reg) == reg.w..(reg.e - 1)

\* the class raster of the scene the tiles were cut from
SceneClass(c, x) ==
    IF c.scene = "uniform" THEN 1
    ELSE IF (x \div c.res) % 3 = 2 THEN 2 ELSE 1

\* the class an inference artifact puts on the outermost cells of tile k
ArtifactClass(k) == 10 + k

\* the tile file <tiles_path>/<tile k>.tif: the classification of tile k
TileResult(c, k) ==
    LET ext == TileExtent(c, k)
    IN  [ x \in Cells(ext) |->
            IF c.artifacts /\ (x < ext.w + c.res \/ x >= ext.e - c.res)
            THEN ArtifactClass(k)
            ELSE SceneClass(c, x) ]

\* edge_cut without the conversion to map units
EdgeCutUnscaled(script, edge_cut, res) == edge_cut

\* edge_cut_meter = edge_cut * res in postprocessing.patch; postprocessing_patch
\* hands edge_cut to g.region as it is
edge_cut_meter(script, edge_cut, res) ==
    IF script = "postprocessing.patch" THEN edge_cut * res ELSE edge_cut

\* g.region raster=<rasters>: the bounding box
MaxOf(S) == CHOOSE x \in S : \A y \in S : x >= y

Covered(rasts) == UNION { DOMAIN rasts[k] : k \in 1..Len(rasts) }

RegionOf(rasts) == [ w |-> MinOf(Covered(rasts)), e |-> MaxOf(Covered(rasts)) + 1 ]

\* g.region raster=<rasters> from the bounds the rasters were written with
\* (a raster keeps its bounds whatever cells of it are null)
BoundsOf(regs) ==
    [ w |-> MinOf({ regs[k].w : k \in 1..Len(regs) }),
      e |-> MaxOf({ regs[k].e : k \in 1..Len(regs) }) ]

\* a region of the east-west axis with its resolution
Region1D(reg, res) == [ w |-> reg.w, e |-> reg.e, res |-> res ]

\* g.region n=n-m s=s+m e=e-m w=w+m (m < 0 grows the region)
Shrink(reg, m) == [ w |-> reg.w + m, e |-> reg.e - m ]

\* g.region refuses a region whose east is not larger than its west
ValidRegion(reg) == reg.w < reg.e

\* r.mapcalc "<out> = <src>" in region reg
Mapcalc(src, reg) == [ x \in (Cells(reg) \cap DOMAIN src) |-> src[x] ]

\* maximal run of equal values around position x of raster r
RECURSIVE RunWest(_, _)
RunWest(r, x) ==
    IF (x - 1) \in DOMAIN r /\ r[x - 1] = r[x] THEN RunWest(r, x - 1) ELSE x

RECURSIVE RunEast(_, _)
RunEast(r, x) ==
    IF (x + 1) \in DOMAIN r /\ r[x + 1] = r[x] THEN RunEast(r, x + 1) ELSE x

\* r.reclass.area mode=lesser method=rmarea value=thr: a clump smaller than
\* thr is merged into a neighbouring clump (the western one if there is one)
RmArea(r, thr) ==
    [ x \in DOMAIN r |->
        LET lo == RunWest(r, x)
            hi == RunEast(r, x)
        IN  IF hi - lo + 1 >= thr THEN r[x]
            ELSE IF (lo - 1) \in DOMAIN r THEN r[lo - 1]
            ELSE IF (hi + 1) \in DOMAIN r THEN r[hi + 1]
            ELSE r[x] ]

\* r.reclass.area input=<r> in the current region reg: like every raster
\* tool it reads its input through the region and writes its output in it
ReclassArea(r, thr, reg) == RmArea(Mapcalc(r, reg), thr)

\* r.patch input=<rasts> in region reg: the first raster that is not null
RPatch(rasts, reg) ==
    [ x \in (Cells(reg) \cap Covered(rasts)) |->
        rasts[MinOf({ k \in 1..Len(rasts) : x \in DOMAIN rasts[k] })][x] ]

\* r.buildvrt of overlapping rasters: which one is read where they overlap
\* is left to the library (the first or the last of the list)
BuildVrt(rasts, first) ==
    [ x \in Covered(rasts) |->
        LET ks == { k \in 1..Len(rasts) : x \in DOMAIN rasts[k] }
        IN  rasts[IF first THEN MinOf(ks) ELSE MaxOf(ks)][x] ]

\* os.listdir / the file list: the tiles in any order
TileOrders(n) ==
    { s \in [ 1..n -> 0..(n - 1) ] : \A a, b \in 1..n : s[a] = s[b] => a = b }

\* the process after grass.parser()
\* the region the user has set before the run: the extent of the scene the
\* tiles were cut from, with resolution rres
SceneRegion(ts, ov, res, rres, n) ==
    LET c == [ tile_size |-> ts, tile_overlap |-> ov, res |-> res ]
    IN  [ w |-> RegW(c), e |-> TileExtent(c, n - 1).e, res |-> rres ]

\* the process after grass.parser(); rres is the resolution of the region
\* that is current when the module starts
InitPatch(script, ts, ov, res, rres, n, ec, b, thr, art, scene, order) ==
    [ phase |-> "start", script |-> script, tile_size |-> ts, tile_overlap |-> ov,
      res |-> res, ntiles |-> n, edge_cut |-> ec, b |-> b, area_threshold |-> thr,
      artifacts |-> art, scene |-> scene, tiles_list |-> order,
      ORIG_REGION |-> PyNone, i |-> 0, tmp |-> << >>, rast_list |-> << >>,
      rm_rasters |-> { }, rasters |-> { }, window |-> << >>,
      patch_out |-> << >>, output |-> << >>,
      user_region |-> SceneRegion(ts, ov, res, rres, n),
      reg |-> RegionsOf(SceneRegion(ts, ov, res, rres, n)),
      cut_res |-> 0, rmarea |-> << >>, cut_regions |-> << >> ]

\* edge_cut_meter, from the resolution read on lines 106-107
PatchCut == edge_cut_meter(patch.script, patch.edge_cut, patch.cut_res)

\* main() up to the loop: the region is saved, res is read from the region
PatchMain ==
    /\ patch.phase = "start"
    /\ patch' = [ patch EXCEPT !.phase = "loop", !.ORIG_REGION = << "original_region" >>,
                               !.reg = SaveRegion(patch.reg),
                               !.cut_res = patch.reg.cur.res,
                               !.i = 1 ]
    /\ UNCHANGED << main_vars, worker, vect >>

\* one iteration of the loop: r.import, r.reclass.area, g.region, r.mapcalc
PatchTile ==
    /\ patch.phase = "loop"
    /\ patch.i <= Len(patch.tiles_list)
    /\ LET k == patch.tiles_list[patch.i]
           tiles_rast == TileResult(patch, k)
           rmarea == IF patch.area_threshold > 0
                     THEN ReclassArea(tiles_rast, patch.area_threshold, patch.reg.cur)
                     ELSE tiles_rast
           names == { << "tmp", k >> } \cup
                    (IF patch.area_threshold > 0 THEN { << "rmarea", k >> } ELSE { })
           tile == RegionOf(<< tiles_rast >>)
           reg == Shrink(tile, PatchCut)
       IN  IF ValidRegion(reg)
           THEN patch' = [ patch EXCEPT
                   !.i = patch.i + 1,
                   !.tmp = Append(patch.tmp, tiles_rast),
                   !.rmarea = Append(patch.rmarea, rmarea),
                   !.rast_list = Append(patch.rast_list, Mapcalc(rmarea, reg)),
                   !.cut_regions = Append(patch.cut_regions, reg),
                   !.reg = SetRegion(patch.reg, Region1D(reg, patch.res)),
                   !.rm_rasters = patch.rm_rasters \cup names \cup { << "cut", k >> },
                   !.rasters = patch.rasters \cup names \cup { << "cut", k >> } ]
           ELSE patch' = [ patch EXCEPT
                   !.phase = "failed",
                   !.tmp = Append(patch.tmp, tiles_rast),
                   !.rmarea = Append(patch.rmarea, rmarea),
                   !.reg = SetRegion(patch.reg, Region1D(tile, patch.res)),
                   !.rm_rasters = patch.rm_rasters \cup names,
                   !.rasters = patch.rasters \cup names ]
    /\ UNCHANGED << main_vars, worker, vect >>

\* g.region raster=rast_list and r.patch of the trimmed tiles
PatchTrimmed ==
    /\ patch.phase = "loop"
    /\ patch.i > Len(patch.tiles_list)
    /\ LET reg == BoundsOf(patch.cut_regions)
           out == RPatch(patch.rast_list, reg)
       IN  patch' = [ patch EXCEPT
               !.phase = IF patch.b THEN "patched" ELSE "done",
               !.window = reg,
               !.reg = SetRegion(patch.reg, Region1D(reg, patch.res)),
               !.patch_out = out,
               !.output = IF patch.b THEN << >> ELSE out,
               !.rm_rasters = IF patch.b THEN patch.rm_rasters \cup { << "patch_out", 0 >> }
                              ELSE patch.rm_rasters,
               !.rasters = patch.rasters \cup
                           { IF patch.b THEN << "patch_out", 0 >> ELSE << "output", 0 >> } ]
    /\ UNCHANGED << main_vars, worker, vect >>

\* -b: the region grows by the edge, the untrimmed tiles become one VRT and
\* the trimmed patch is patched over it
PatchBorder ==
    /\ patch.phase = "patched"
    /\ \E first \in BOOLEAN :
         LET reg == Shrink(patch.window, 0 - PatchCut)
             vrt == BuildVrt(patch.tmp, first)
         IN  patch' = [ patch EXCEPT
                 !.phase = "done",
                 !.reg = SetRegion(patch.reg, Region1D(reg, patch.res)),
                 !.output = RPatch(<< patch.patch_out, vrt >>, reg),
                 !.rm_rasters = patch.rm_rasters \cup { << "vrt", 0 >> },
                 !.rasters = patch.rasters \cup { << "vrt", 0 >>, << "output", 0 >> } ]
    /\ UNCHANGED << main_vars, worker, vect >>

\* cleanup() at exit: general_cleanup removes rm_rasters
PatchCleanup ==
    /\ patch.phase \in { "done", "failed" }
    /\ patch' = [ patch EXCEPT !.phase = "exit",
                               !.reg = RestoreRegion(patch.reg),
                               !.rasters = patch.rasters \ patch.rm_rasters ]
    /\ UNCHANGED << main_vars, worker, vect >>

(***************************************************************************)
(* VectorCleaner: m.neural_network.postprocessing.vectorize.  The map is   *)
(* followed on the positions 1..MaxVectPos; a vector layer is the set of   *)
(* its table columns, the table row of the area at every position it       *)
(* covers (the cat column is not followed) and the layers it derives from. *)
(***************************************************************************)
SqlNull == 0 - 1

VectSpace == 1..MaxVectPos

\* the raster category label of class c
LabelOf(c, labelled) == IF labelled THEN 10 + c ELSE SqlNull

\* r.to.vect type=area column=class_number_float
RToVect(rast, labelled) ==
    [ cols |-> { "cat", "class_number_float", "label" },
      rows |-> [ x \in DOMAIN rast |->
                   [ col \in { "class_number_float", "label" } |->
                       IF col = "label" THEN LabelOf(rast[x], labelled) ELSE rast[x] ] ],
      from |-> { "tmp1" } ]

\* v.clean tool=rmarea threshold=thr
VClean(l, thr, name) ==
    [ l EXCEPT !.rows = RmArea(l.rows, thr), !.from = l.from \cup { name } ]

\* v.db.addcolumn
AddColumn(l, col) ==
    [ l EXCEPT !.cols = l.cols \cup { col },
               !.rows = [ x \in DOMAIN l.rows |->
                            [ k \in (l.cols \cup { col }) \ { "cat" } |->
                                IF k = col THEN SqlNull ELSE l.rows[x][k] ] ] ]

\* v.db.update column=col query_column=qcol [where col is null]
UpdateColumn(l, col, qcol, onlyNull) ==
    [ l EXCEPT !.rows = [ x \in DOMAIN l.rows |->
          IF onlyNull /\ l.rows[x][col] # SqlNull THEN l.rows[x]
          ELSE [ l.rows[x] EXCEPT ![col] = l.rows[x][qcol] ] ] ]

\* an overlay step that keeps the value of A where B has none
KeepWhereNull(l, col, qcol) == l

\* db.execute "update <map> set col = null where qcol is null"
SetNullWhereNull(l, col, qcol) ==
    [ l EXCEPT !.rows = [ x \in DOMAIN l.rows |->
          IF l.rows[x][qcol] = SqlNull
          THEN [ l.rows[x] EXCEPT ![col] = SqlNull ] ELSE l.rows[x] ] ]

\* v.db.dropcolumn
DropColumns(l, cs) ==
    [ l EXCEPT !.cols = l.cols \ cs,
               !.rows = [ x \in DOMAIN l.rows |->
                            [ k \in (l.cols \ cs) \ { "cat" } |-> l.rows[x][k] ] ] ]

\* v.db.renamecolumn column=old,new
RenameColumn(l, old, new) ==
    [ l EXCEPT !.cols = (l.cols \ { old }) \cup { new },
               !.rows = [ x \in DOMAIN l.rows |->
                            [ k \in ((l.cols \ { old }) \cup { new }) \ { "cat" } |->
                                IF k = new THEN l.rows[x][old] ELSE l.rows[x][k] ] ] ]

\* v.extract -d dissolve_column=col [where col is not null]: the areas stay
\* the same set of positions, the table keeps its columns
Extract(l, col, notNull, name) ==
    [ l EXCEPT !.rows = [ x \in { y \in DOMAIN l.rows :
                                    notNull => l.rows[y][col] # SqlNull } |-> l.rows[x] ],
               !.from = l.from \cup { name } ]

\* what v.generalize may do to the outline: nothing, cut a position away
\* (a corner), bulge over a position next to the layer, or move the boundary
\* between two areas over a position
GeneralizeChanges(l) ==
    { << "none", 0 >> }
    \cup { << "lose", x >> : x \in DOMAIN l.rows }
    \cup { << "shift", x >> : x \in { y \in DOMAIN l.rows :
                                       (y - 1) \in DOMAIN l.rows /\ l.rows[y - 1] # l.rows[y] } }
    \cup { << "gain", x >> : x \in { y \in VectSpace \ DOMAIN l.rows :
                                      (y - 1) \in DOMAIN l.rows \/ (y + 1) \in DOMAIN l.rows } }

\* v.generalize type=area: the table is copied
VGeneralize(l, ch, name) ==
    LET x == ch[2]
        rows == CASE ch[1] = "lose" -> [ y \in DOMAIN l.rows \ { x } |-> l.rows[y] ]
                  [] ch[1] = "gain" ->
                       [ y \in DOMAIN l.rows \cup { x } |->
                           IF y # x THEN l.rows[y]
                           ELSE IF (x - 1) \in DOMAIN l.rows THEN l.rows[x - 1]
                           ELSE l.rows[x + 1] ]
                  [] ch[1] = "shift" -> [ l.rows EXCEPT ![x] = l.rows[x - 1] ]
                  [] OTHER -> l.rows
    IN  [ l EXCEPT !.rows = rows, !.from = l.from \cup { name } ]

\* v.overlay operator=or olayer=1,0,0: one area per position covered by A or
\* by B, the columns of A as a_<col>, those of B as b_<col>
Overlay(A, B, name) ==
    LET acols == { "a_" \o c : c \in A.cols }
        bcols == { "b_" \o c : c \in B.cols }
        ValueOf(L, x, c) == IF x \notin DOMAIN L.rows THEN SqlNull
                            ELSE IF c = "cat" THEN x ELSE L.rows[x][c]
    IN  [ cols |-> { "cat" } \cup acols \cup bcols,
          rows |-> [ x \in DOMAIN A.rows \cup DOMAIN B.rows |->
                       [ k \in acols \cup bcols |->
                           IF k \in acols
                           THEN ValueOf(A, x, CHOOSE c \in A.cols : k = "a_" \o c)
                           ELSE ValueOf(B, x, CHOOSE c \in B.cols : k = "b_" \o c) ] ],
          from |-> A.from \cup B.from \cup { name } ]

\* the body of the loop "for col in [class_number, label]"
RestoreColumn(l, col) ==
    RenameColumn(
        SetNullWhereNull(UpdateColumn(l, "a_" \o col, "b_" \o col, TRUE),
                         "a_" \o col, "b_" \o col),
        "a_" \o col, col)

\* v.db.update / v.db.dropcolumn stop with an error on a column that is not
\* in the table, and run_command raises
RestoreCornersRuns(A, B) == { "cat", "class_number", "label" } \subseteq (A.cols \cap B.cols)

restore_corners(A, B, output) ==
    LET output_tmp == Overlay(A, B, output \o "_tmp")
        updated == RestoreColumn(RestoreColumn(output_tmp, "class_number"), "label")
        dropped == DropColumns(updated, { "a_cat", "b_cat", "b_label", "b_class_number" })
    IN  Extract(dropped, "class_number", TRUE, output)

\* the process after grass.parser()
\* the region of the classification raster (g.region raster=<input>)
VectRasterRegion == [ n |-> 1, s |-> 0, e |-> MaxVectPos + 1, w |-> 1, res |-> 1 ]

InitVect(s, c, rast, labelled, thr, t) ==
    [ phase |-> "start", s |-> s, c |-> c, raster |-> rast, labelled |-> labelled,
      rmarea_thres |-> thr, generalize_thres |-> t, orig_region |-> PyNone,
      layers |-> << >>, last_tmp_class_vect |-> "", log |-> << >>, calls |-> << >>,
      invoked |-> << >>,
      rm_vectors |-> { }, existing |-> { },
      reg |-> RegionsOf(UserRegion) ]

Logged(tool, input, output, thres2) ==
    [ tool |-> tool, input |-> input, output |-> output, thres2 |-> thres2 ]

\* main() up to r.to.vect
VectVectorize ==
    /\ vect.phase = "start"
    /\ vect' = [ vect EXCEPT
           !.phase = "vectorized",
           !.orig_region = << "original_region" >>,
           !.reg = SetRegion(SaveRegion(vect.reg), VectRasterRegion),
           !.layers = "tmp1" :> RToVect(vect.raster, vect.labelled),
           !.log = << Logged("r.to.vect", "raster", "tmp1", 0) >>,
           !.rm_vectors = { "tmp1" },
           !.existing = { "tmp1" } ]
    /\ UNCHANGED << main_vars, worker, patch >>

\* v.clean tool=rmarea
VectRmarea ==
    /\ vect.phase = "vectorized"
    /\ vect' = [ vect EXCEPT
           !.phase = "cleaned",
           !.layers = vect.layers @@
                      ("rmarea" :> VClean(vect.layers["tmp1"], vect.rmarea_thres, "rmarea")),
           !.log = Append(vect.log, Logged("v.clean", "tmp1", "rmarea", 0)),
           !.rm_vectors = vect.rm_vectors \cup { "rmarea" },
           !.existing = vect.existing \cup { "rmarea" } ]
    /\ UNCHANGED << main_vars, worker, patch >>

\* v.db.addcolumn, v.db.update, v.db.dropcolumn on the rmarea layer
VectColumns ==
    /\ vect.phase = "cleaned"
    /\ LET l == vect.layers["rmarea"]
           conv == DropColumns(
                       UpdateColumn(AddColumn(l, "class_number"),
                                    "class_number", "class_number_float", FALSE),
                       { "class_number_float" })
       IN  vect' = [ vect EXCEPT
               !.phase = "typed",
               !.layers = [ vect.layers EXCEPT !["rmarea"] = conv ],
               !.log = Append(vect.log, Logged("v.db", "rmarea", "rmarea", 0)) ]
    /\ UNCHANGED << main_vars, worker, patch >>

\* v.extract -d dissolve_column=class_number
VectDissolve ==
    /\ vect.phase = "typed"
    /\ vect' = [ vect EXCEPT
           !.phase = "dissolved",
           !.layers = vect.layers @@
                      ("dissolve" :> Extract(vect.layers["rmarea"], "class_number",
                                             FALSE, "dissolve")),
           !.last_tmp_class_vect = "dissolve",
           !.log = Append(vect.log, Logged("v.extract", "rmarea", "dissolve", 0)),
           !.rm_vectors = vect.rm_vectors \cup { "dissolve" },
           !.existing = vect.existing \cup { "dissolve" } ]
    /\ UNCHANGED << main_vars, worker, patch >>

\* "if smoothing": v.generalize method=chaiken and restore_corners
VectSmooth ==
    /\ vect.phase = "dissolved"
    /\ vect.s
    /\ \E ch \in GeneralizeChanges(vect.layers["tmp1"]) :
         LET s1 == VGeneralize(vect.layers["tmp1"], ch, "tmp_s1")
             B == vect.layers["tmp1"]
             log1 == Append(vect.log,
                            Logged("v.generalize chaiken", "tmp1", "tmp_s1",
                                   2 * vect.generalize_thres))
         IN  IF RestoreCornersRuns(s1, B)
             THEN vect' = [ vect EXCEPT
                     !.phase = "smoothed",
                     !.layers = vect.layers @@ ("tmp_s1" :> s1) @@
                                ("tmp_s2" :> restore_corners(s1, B, "tmp_s2")),
                     !.last_tmp_class_vect = "tmp_s2",
                     !.log = Append(log1, Logged("restore_corners", "tmp_s1", "tmp_s2", 0)),
                     !.calls = Append(vect.calls, [ a |-> "tmp_s1", b |-> "tmp1",
                                                    out |-> "tmp_s2" ]),
                     !.invoked = Append(vect.invoked, [ a |-> "tmp_s1", b |-> "tmp1",
                                                        out |-> "tmp_s2" ]),
                     !.rm_vectors = vect.rm_vectors \cup { "tmp_s1", "tmp_s2", "tmp_s2_tmp" },
                     !.existing = vect.existing \cup { "tmp_s1", "tmp_s2", "tmp_s2_tmp" } ]
             ELSE vect' = [ vect EXCEPT
                     !.phase = "failed",
                     !.layers = vect.layers @@ ("tmp_s1" :> s1),
                     !.last_tmp_class_vect = "tmp_s2",
                     !.log = log1,
                     !.invoked = Append(vect.invoked, [ a |-> "tmp_s1", b |-> "tmp1",
                                                        out |-> "tmp_s2" ]),
                     !.rm_vectors = vect.rm_vectors \cup { "tmp_s1", "tmp_s2", "tmp_s2_tmp" },
                     !.existing = vect.existing \cup { "tmp_s1", "tmp_s2_tmp" } ]
    /\ UNCHANGED << main_vars, worker, patch >>

\* v.generalize method=douglas threshold=generalize_thres
VectGeneralize ==
    /\ \/ vect.phase = "dissolved" /\ ~vect.s
       \/ vect.phase = "smoothed"
    /\ \E ch \in GeneralizeChanges(vect.layers[vect.last_tmp_class_vect]) :
         vect' = [ vect EXCEPT
             !.phase = "generalized",
             !.layers = vect.layers @@
                        ("tmp2" :> VGeneralize(vect.layers[vect.last_tmp_class_vect],
                                               ch, "tmp2")),
             !.log = Append(vect.log,
                            Logged("v.generalize douglas", vect.last_tmp_class_vect,
                                   "tmp2", 2 * vect.generalize_thres)),
             !.rm_vectors = vect.rm_vectors \cup { "tmp2" },
             !.existing = vect.existing \cup { "tmp2" } ]
    /\ UNCHANGED << main_vars, worker, patch >>

\* the second run: threshold=generalize_thres * 1.5
VectGeneralizeAgain ==
    /\ vect.phase = "generalized"
    /\ \E ch \in GeneralizeChanges(vect.layers["tmp2"]) :
         vect' = [ vect EXCEPT
             !.phase = "generalized2",
             !.layers = vect.layers @@
                        ("tmp3" :> VGeneralize(vect.layers["tmp2"], ch, "tmp3")),
             !.log = Append(vect.log,
                            Logged("v.generalize douglas", "tmp2", "tmp3",
                                   3 * vect.generalize_thres)),
             !.rm_vectors = vect.rm_vectors \cup { "tmp3" },
             !.existing = vect.existing \cup { "tmp3" } ]
    /\ UNCHANGED << main_vars, worker, patch >>

\* "if flags[c]": restore_corners, else g.rename
VectFinish ==
    /\ vect.phase = "generalized2"
    /\ LET A == vect.layers["tmp3"]
           B == vect.layers[vect.last_tmp_class_vect]
       IN  IF ~vect.c
           THEN vect' = [ vect EXCEPT
                   !.phase = "done",
                   !.layers = vect.layers @@
                              ("output" :> [ A EXCEPT !.from = A.from \cup { "output" } ]),
                   !.log = Append(vect.log, Logged("g.rename", "tmp3", "output", 0)),
                   !.existing = (vect.existing \ { "tmp3" }) \cup { "output" } ]
           ELSE IF RestoreCornersRuns(A, B)
           THEN vect' = [ vect EXCEPT
                   !.phase = "done",
                   !.layers = vect.layers @@
                              ("output" :> restore_corners(A, B, "output")),
                   !.log = Append(vect.log, Logged("restore_corners", "tmp3", "output", 0)),
                   !.calls = Append(vect.calls, [ a |-> "tmp3",
                                                  b |-> vect.last_tmp_class_vect,
                                                  out |-> "output" ]),
                   !.invoked = Append(vect.invoked, [ a |-> "tmp3",
                                                      b |-> vect.last_tmp_class_vect,
                                                      out |-> "output" ]),
                   !.rm_vectors = vect.rm_vectors \cup { "output_tmp" },
                   !.existing = vect.existing \cup { "output_tmp", "output" } ]
           ELSE vect' = [ vect EXCEPT
                   !.phase = "failed",
                   !.invoked = Append(vect.invoked, [ a |-> "tmp3",
                                                      b |-> vect.last_tmp_class_vect,
                                                      out |-> "output" ]),
                   !.rm_vectors = vect.rm_vectors \cup { "output_tmp" },
                   !.existing = vect.existing \cup { "output_tmp" } ]
    /\ UNCHANGED << main_vars, worker, patch >>

\* cleanup() at exit: general_cleanup removes rm_vectors
VectCleanup ==
    /\ vect.phase \in { "done", "failed" }
    /\ vect' = [ vect EXCEPT !.phase = "exit",
                             !.reg = RestoreRegion(vect.reg),
                             !.existing = vect.existing \ vect.rm_vectors ]
    /\ UNCHANGED << main_vars, worker, patch >>

(***************************************************************************)
(* The label check of preparetraining.worker, lines 152-216.  A string of  *)
(* digits is the sequence of its digits; the values of class_column are    *)
(* such strings (v.db.select prints them).                                 *)
(***************************************************************************)
DigitStrings ==
    { << a >> : a \in 0..MaxDigit } \cup { << a, b >> : a \in 1..MaxDigit, b \in 0..MaxDigit }

\* set(s) of a Python string s: the set of its characters
CharSet(s) == { << s[i] >> : i \in 1..Len(s) }

\* set((no_class_value)): the parentheses do not make a tuple
NoClassSet(no_class_value) == CharSet(no_class_value)

\* set(class_numbers).difference(set([*class_values, no_class_value]))
difference(class_numbers, class_values, no_class_value) ==
    Range(class_numbers) \ (class_values \cup { no_class_value })

\* line 174
tile_empty(class_numbers, no_class_value) ==
    Len(class_numbers) = 0 \/ Range(class_numbers) = NoClassSet(no_class_value)

\* the worker at line 152, the label vector imported
InitLabel(class_numbers, class_values, no_class_value) ==
    [ phase |-> "label_imported", class_numbers |-> class_numbers,
      class_values |-> class_values, no_class_value |-> no_class_value,
      tile_empty |-> FALSE, warned |-> FALSE, labelrast |-> { }, exit |-> None ]

\* lines 152-183: grass.fatal on unexpected values, else the emptiness test
LabelCheck ==
    /\ worker.phase = "label_imported"
    /\ IF difference(worker.class_numbers, worker.class_values,
                     worker.no_class_value) # { }
       THEN worker' = [ worker EXCEPT !.phase = "label_fatal", !.exit = 1 ]
       ELSE LET e == tile_empty(worker.class_numbers, worker.no_class_value)
            IN  worker' = [ worker EXCEPT !.phase = "label_checked",
                                          !.tile_empty = e, !.warned = e ]
    /\ UNCHANGED << main_vars, patch, vect >>

\* lines 185-206: the values of labelrast; v.to.rast may leave null cells,
\* which become no_class_value
LabelRasterize ==
    /\ worker.phase = "label_checked"
    /\ \E nodata \in BOOLEAN :
         worker' = [ worker EXCEPT
             !.phase = "label_rasterized",
             !.labelrast =
                 IF worker.tile_empty THEN { worker.no_class_value }
                 ELSE Range(worker.class_numbers) \cup
                      (IF nodata THEN { worker.no_class_value } ELSE { }) ]
    /\ UNCHANGED << main_vars, patch, vect >>

\* lines 208-216: r.out.gdal, main() returns
LabelExport ==
    /\ worker.phase = "label_rasterized"
    /\ worker' = [ worker EXCEPT !.phase = "label_done", !.exit = 0 ]
    /\ UNCHANGED << main_vars, patch, vect >>

(***************************************************************************)
(* Specifications.                                                         *)
(***************************************************************************)
Next ==
    \/ Start
    \/ GridStep
    \/ GridDispatch
    \/ DispatchNullcheck
    \/ Wait
    \/ Verify
    \/ Split
    \/ DispatchTrain
    \/ DispatchApply
    \/ Prune
    \/ Cleanup
    \/ StartTraining
    \/ DispatchLabel
    \/ FinishTraining
    \/ \E t \in 1..Len(tasks) : WorkerSyntaxError(t)
    \/ \E t \in 1..Len(tasks) : WorkerSwitch(t)
    \/ \E t \in 1..Len(tasks) : WorkerSwitchFail(t)
    \/ \E t \in 1..Len(tasks) : WorkerExit(t)
    \/ \E t \in 1..Len(tasks) : MapsetDrift(t)

Spec == Init /\ [][Next]_vars

\* the pipeline with dispatch loops that can raise
NextRaise == Next \/ ModuleRaises

SpecRaise == Init /\ [][NextRaise]_vars

NextGrid == Start \/ GridStep

SpecGrid == InitGrid /\ [][NextGrid]_vars

\* the program whose variables stand still while another one is looked at
IdleCfg == CfgOf("none", "none", 1, 1, 1, 0, 1, 0, 1, 0, FALSE)

InitWorker ==
    /\ InitWith(IdleCfg)
    /\ \E script \in WorkerScripts, id \in 0..MaxWorkerIds, exists \in BOOLEAN :
          worker = InitWorkerProc(script, id, exists)
    /\ patch = NoPatch /\ vect = NoVect

NextWorker ==
    \/ ProcSyntaxError
    \/ ProcMain
    \/ ProcSwitch
    \/ ProcSwitchFatal
    \/ ProcEnd
    \/ ProcCleanup

SpecWorker == InitWorker /\ [][NextWorker]_vars

InitLabelCheck ==
    /\ InitWith(IdleCfg)
    /\ patch = NoPatch /\ vect = NoVect
    /\ \E n \in 0..MaxFeatures, no_class_value \in DigitStrings :
         \E class_numbers \in [ 1..n -> DigitStrings ],
            class_values \in SUBSET { << a >> : a \in 1..MaxDigit } :
            /\ class_values # { }
            /\ worker = InitLabel(class_numbers, class_values, no_class_value)

NextLabelCheck ==
    \/ LabelCheck
    \/ LabelRasterize
    \/ LabelExport

SpecLabelCheck == InitLabelCheck /\ [][NextLabelCheck]_vars

InitPatcher ==
    /\ InitWith(IdleCfg)
    /\ worker = NoWorker /\ vect = NoVect
    /\ \E script \in PatchScripts, ts \in 3..MaxPatchTileSize, res \in 1..MaxRes,
          n \in 2..MaxPatchTiles, ec \in 0..MaxEdgeCut, b \in BOOLEAN,
          thr \in { 0, MinClump }, art \in BOOLEAN, scene \in { "uniform", "mixed" } :
          \E ov \in 0..Min2(ts - 1, 2 * MaxEdgeCut), order \in TileOrders(n) :
             /\ script = "postprocessing_patch" => thr = 0
             /\ patch = InitPatch(script, ts, ov, res, res, n, ec, b, thr, art, scene, order)

NextPatcher ==
    \/ PatchMain
    \/ PatchTile
    \/ PatchTrimmed
    \/ PatchBorder
    \/ PatchCleanup

SpecPatcher == InitPatcher /\ [][NextPatcher]_vars

InitVectorize ==
    /\ InitWith(IdleCfg)
    /\ worker = NoWorker /\ patch = NoPatch
    /\ \E s \in BOOLEAN, c \in BOOLEAN, labelled \in BOOLEAN, thr \in { 0, MinClump },
          t \in 1..MaxRes, f \in [ VectSpace -> 0..MaxClass ] :
          /\ \E x \in VectSpace : f[x] # 0
          /\ vect = InitVect(s, c, [ x \in { y \in VectSpace : f[y] # 0 } |-> f[x] ],
                             labelled, thr, t)

NextVectorize ==
    \/ VectVectorize
    \/ VectRmarea
    \/ VectColumns
    \/ VectDissolve
    \/ VectSmooth
    \/ VectGeneralize
    \/ VectGeneralizeAgain
    \/ VectFinish
    \/ VectCleanup

SpecVectorize == InitVectorize /\ [][NextVectorize]_vars

\* largest tile size (cells) of the runs started in a coarser region
MaxResTileSize == 5

\* postprocessing.patch started in a region whose resolution rres is the
\* tiles' resolution or a multiple of it
InitPatchRes ==
    /\ InitWith(IdleCfg)
    /\ worker = NoWorker /\ vect = NoVect
    /\ \E ts \in 3..MaxResTileSize, res \in 1..MaxRes, rres \in 1..MaxRes,
          n \in 2..MaxPatchTiles, ec \in 0..MaxEdgeCut, b \in BOOLEAN,
          thr \in { 0, MinClump }, art \in BOOLEAN, scene \in { "uniform", "mixed" } :
          \E ov \in 0..Min2(ts - 1, 2 * MaxEdgeCut), order \in TileOrders(n) :
             /\ rres % res = 0
             /\ patch = InitPatch("postprocessing.patch", ts, ov, res, rres, n, ec, b,
                                  thr, art, scene, order)

SpecPatchRes == InitPatchRes /\ [][NextPatcher]_vars

\* the five orchestrators, each from its start to its exit cleanup, the
\* tiling and training ones with one worker process at a time
InitRegion ==
    \/ Init /\ cfg.nprocs = 1
    \/ InitPatcher
    \/ InitVectorize

NextRegion ==
    \/ Next
    \/ NextPatcher
    \/ NextVectorize

SpecRegion == InitRegion /\ [][NextRegion]_vars

(***************************************************************************)
(* C1, C2: the grid planner.                                               *)
(***************************************************************************)
GridBuilt == IsTiler /\ pc \notin { "start", "grid", "crashed" }

ValidGrid == cfg.tile_overlap < cfg.tile_size

\* C1: for rows, cols >= 1 and 0 <= tile_overlap < tile_size the planner
\* generates exactly ceil(rows/step) * ceil(cols/step) tiles, also when rows
\* or cols is an exact multiple of step = tile_size - tile_overlap.
C1_TileCountIsCeil ==
    (GridBuilt /\ ValidGrid) =>
        Len(features) = Ceil(cfg.rows, Step(cfg)) * Ceil(cfg.cols, Step(cfg))

\* C2: tiles adjacent in a row or in a column overlap by exactly
\* tile_overlap * res map units, and every tile is tile_size * res wide and high.
C2_AdjacentOverlap ==
    (GridBuilt /\ ValidGrid) =>
        LET nc == num_tiles_col(cfg)
            ov == cfg.tile_overlap * cfg.res
            sz == cfg.tile_size * cfg.res
        IN  \A k \in 1..Len(features) :
              /\ features[k].e - features[k].w = sz
              /\ features[k].n - features[k].s = sz
              /\ (k % nc # 0) => features[k].e - features[k + 1].w = ov
              /\ (k + nc <= Len(features)) => features[k + nc].n - features[k].s = ov
              /\ (k % nc # 0) => features[k + 1].n = features[k].n
              /\ (k + nc <= Len(features)) => features[k + nc].w = features[k].w

C2_Witness ==
    /\ GridBuilt
    /\ ValidGrid
    /\ cfg.tile_overlap > 0
    /\ num_tiles_col(cfg) >= 2
    /\ num_tiles_row(cfg) >= 2
    /\ Len(features) = num_tiles_total(cfg)

(***************************************************************************)
(* C3 - C10: the pipeline.                                                 *)
(***************************************************************************)
TasksOf(kind) == { t \in 1..Len(tasks) : tasks[t].kind = kind }

FatalKind == IF fatalMsg = << >> THEN "none" ELSE fatalMsg[1]

SplitDone == IsTiler /\ batch \in { "train", "apply" }

\* the null count the null-check worker of tile num reported (None without one)
NullOf(num) ==
    IF \E t \in TasksOf("nullcheck") : tasks[t].num = num
    THEN tasks[CHOOSE t \in TasksOf("nullcheck") : tasks[t].num = num].null_cells
    ELSE None

EligibleCount == Cardinality({ t \in TasksOf("nullcheck") : tasks[t].null_cells = 0 })

RequestedOfGrid == PyRound(train_percentage(cfg) * num_tiles_total(cfg), 100)

\* C3: the number of training tiles is min(round(p/100 * total), eligible);
\* when it is clamped, a warning with the recomputed percentage is emitted.
C3_TrainCount ==
    SplitDone =>
        /\ Len(tr_tiles) = Min2(RequestedOfGrid, EligibleCount)
        /\ (EligibleCount < RequestedOfGrid) =>
               \E k \in 1..Len(warnings) :
                   warnings[k] = << "train percentage is reduced to",
                                    PyRound(100 * EligibleCount, num_tiles_total(cfg)) >>

\* C4: training and apply set are disjoint, every training tile has no null
\* cell and every apply tile (with a null-check result) has data.
C4_SplitSound ==
    SplitDone =>
        /\ Range(tr_tiles) \cap Range(ap_tiles) = { }
        /\ \A x \in Range(tr_tiles) : NullOf(x) = 0
        /\ \A x \in Range(ap_tiles) : NullOf(x) # FullNull(cfg)
        /\ \A a, b \in 1..Len(tr_tiles) : a # b => tr_tiles[a] # tr_tiles[b]
        /\ \A a, b \in 1..Len(ap_tiles) : a # b => ap_tiles[a] # ap_tiles[b]

C4_Witness ==
    /\ SplitDone
    /\ tr_tiles # << >>
    /\ ap_tiles # << >>
    /\ \E x \in Range(ap_tiles) : NullOf(x) \notin { 0, FullNull(cfg) }
    /\ tiles_wo_data # << >>

\* the tiles (0-based numbers) that stay in the index, ascending
RECURSIVE Kept(_)
Kept(k) ==
    IF k >= GridIterations(cfg) THEN << >>
    ELSE IF NullOf(k) = FullNull(cfg) THEN Kept(k + 1)
    ELSE << k >> \o Kept(k + 1)

\* feature f is the one generated for tile number k: id, name and geometry
IsTile(f, k) ==
    LET row == RowOf(cfg, k)
        col == ColOf(cfg, k)
        stepmu == Step(cfg) * cfg.res
    IN  /\ f.fid = TileId(cfg, row, col)
        /\ f.name = << row, col >>
        /\ f.w = RegW(cfg) + col * stepmu
        /\ f.n = RegN(cfg) - row * stepmu
        /\ f.e = f.w + cfg.tile_size * cfg.res
        /\ f.s = f.n - cfg.tile_size * cfg.res

\* C5: the exported index holds exactly the generated tiles whose null count
\* is not tile_size^2, each with its own id, name and geometry.
C5_IndexHoldsTilesWithData ==
    (tindex.exported) =>
        /\ Len(tindex.features) = Len(Kept(0))
        /\ \A j \in 1..Len(tindex.features) : IsTile(tindex.features[j], Kept(0)[j])

C5_Witness ==
    /\ tindex.exported
    /\ Len(tindex.features) >= 1
    /\ Len(tiles_wo_data) >= 2
    /\ cfg.nprocs >= 2

NullcheckComplete ==
    /\ \A k \in 0..(GridIterations(cfg) - 1) :
          \E t \in TasksOf("nullcheck") :
              /\ tasks[t].num = k
              /\ tasks[t].st = "exited"
              /\ tasks[t].returncode = 0
    /\ \A t \in TasksOf("nullcheck") : tasks[t].st = "exited" /\ tasks[t].returncode = 0

\* C6: no export task is dispatched and the split is not computed before
\* every null-check task has completed and its null count has been read; no
\* apply export is dispatched before the training-export batch has completed.
C6_BatchBarrier ==
    /\ (IsTiler /\ cfg.flag # "a"
          /\ (batch \in { "train", "apply" }
                \/ TasksOf("train") \cup TasksOf("apply") # { })) =>
           /\ NullcheckComplete
           /\ \A k \in 0..(GridIterations(cfg) - 1) :
                  k \in Range(tiles_with_data) \cup Range(tiles_wo_data)
    /\ (TasksOf("apply") # { }) =>
           /\ Cardinality(TasksOf("train")) = Len(tr_tiles)
           /\ \A t \in TasksOf("train") : tasks[t].st = "exited" /\ tasks[t].returncode = 0

C6_Witness ==
    /\ cfg.flag # "a"
    /\ cfg.nprocs >= 2
    /\ Cardinality(TasksOf("nullcheck")) >= 3
    /\ TasksOf("train") # { }
    /\ \E t \in TasksOf("apply") : Running(t)

BatchRank(kind) ==
    CASE kind = "nullcheck" -> 1
      [] kind = "train" -> 2
      [] kind = "apply" -> 3
      [] OTHER -> 1

\* C7: in each of the three batches of preparedata, when a task exits
\* non-zero the run ends fatally and the fatal error carries what that task
\* wrote to its error stream; no task of a later batch is dispatched and no
\* tile index is exported.
C7_FailedBatchIsFatal ==
    (cfg.module = "preparedata") =>
    /\ \A t \in 1..Len(tasks) :
          (tasks[t].st = "exited" /\ tasks[t].exit # 0) =>
              /\ \A u \in 1..Len(tasks) : BatchRank(tasks[u].kind) <= BatchRank(tasks[t].kind)
              /\ batch = tasks[t].kind
              /\ ~tindex.exported
              /\ pc \notin { "done", "prune", "split", "finish", "verify" }
              /\ (pc = "exited") => FatalKind = "ERROR by processing"
    /\ (FatalKind = "ERROR by processing") =>
          /\ pc \in { "fatal", "exited" }
          /\ fatalMsg[2] \in 1..Len(tasks)
          /\ tasks[fatalMsg[2]].exit # 0
          /\ tasks[fatalMsg[2]].kind = batch
          /\ fatalMsg[3] = tasks[fatalMsg[2]].stderr

\* C8: in preparedata, when a batch is declared failed every task already
\* started has finished, and no task is running in a mapset whose directory
\* has been deleted.
C8_StartedTasksFinishFirst ==
    (cfg.module = "preparedata") =>
    /\ (FatalKind = "ERROR by processing") => \A t \in 1..Len(tasks) : ~Running(t)
    /\ \A t \in 1..Len(tasks) : (tasks[t].st = "switched") => tasks[t].mapset \in dirs

VerifiedBatches == { verified[k][1] : k \in 1..Len(verified) }

\* C9: after every batch and before the next batch or the export of the
\* index, the current mapset is verified to be the one recorded at start;
\* the run ends fatally if it differs.
C9_MapsetVerified ==
    /\ \A k \in 1..Len(verified) : verified[k][2] = << "base" >>
    /\ (TasksOf("nullcheck") # { } /\ (SplitDone \/ pc = "split")) =>
           "nullcheck" \in VerifiedBatches
    /\ (IsTiler /\ batch = "apply") => "train" \in VerifiedBatches
    /\ (pc = "prune" \/ tindex.exported) =>
           { "train", "apply" } \subseteq VerifiedBatches
    /\ (cfg.module = "preparetraining" /\ pc \in { "finish", "done" }) =>
           "label" \in VerifiedBatches
    /\ (FatalKind = "New mapset is") => fatalMsg[2] # << "base" >>

C9_Witness ==
    /\ pc = "fatal"
    /\ FatalKind = "New mapset is"
    /\ batch = "apply"
    /\ Len(verified) = 2

\* C10: once a worker process has finished, succeeded or failed, its
\* temporary mapset directory no longer exists and its GISRC copy is removed.
C10_WorkerLeavesNothing ==
    \A t \in 1..Len(tasks) :
        (tasks[t].st = "exited") => (tasks[t].mapset \notin dirs /\ t \notin gisrcs)

(***************************************************************************)
(* C11: cleanup() of a worker.                                             *)
(***************************************************************************)
\* C11: cleanup() of a worker (here m.neural_network.preparedata_part1.
\* worker_nullcells) can be called in every state of the worker, also before
\* the mapset switch has completed or after it failed, and twice: no call
\* raises, the mapset directory is then absent and GISRC is the original
\* file, and the second call leaves what the first one left.
C11_CleanupIdempotent ==
    (worker.phase # "none" /\ worker.script = "preparedata_part1.worker_nullcells"
        /\ worker.calls >= 1) =>
        /\ ~worker.raised
        /\ worker.new_mapset \notin worker.mapsets
        /\ worker.environ = SessionGisrc
        /\ worker.first = << Left(worker) >>

\* the part of C11 that the code keeps: after a completed switch
C11_AfterSwitchOnly ==
    (worker.phase \in { "switched", "ended" } /\ GlobalsDeclared(worker.script)
        /\ worker.calls >= 1) =>
        /\ ~worker.raised
        /\ worker.new_mapset \notin worker.mapsets
        /\ worker.environ = SessionGisrc
        /\ GisrcCopy \notin worker.files
        /\ worker.first = << Left(worker) >>

(***************************************************************************)
(* C12 - C15: tasks in flight, parallelism, configuration, the -a flag.    *)
(***************************************************************************)
InFlight == { t \in 1..Len(tasks) : Running(t) }

\* C12: no two tasks in flight at the same time work on the same tile or
\* have the same temporary mapset name; within a batch the mapset names are
\* pairwise distinct, and no tile is in the training-export batch and in the
\* apply-export batch of one run.
C12_OneTaskPerTile ==
    /\ \A t, u \in InFlight :
          t # u => /\ tasks[t].mapset # tasks[u].mapset
                   /\ tasks[t].num # tasks[u].num
    /\ \A t, u \in 1..Len(tasks) :
          (t # u /\ tasks[t].kind = tasks[u].kind) =>
              /\ tasks[t].mapset # tasks[u].mapset
              /\ tasks[t].num # tasks[u].num
    /\ \A t \in TasksOf("train"), u \in TasksOf("apply") : tasks[t].num # tasks[u].num

C12_Witness ==
    /\ cfg.nprocs >= 2
    /\ \E t, u \in InFlight :
          /\ t # u
          /\ tasks[t].st = "switched"
          /\ tasks[u].st = "switched"
          /\ tasks[t].kind = "apply"
    /\ TasksOf("train") # { }

\* C13: in every batch the number of worker tasks running at the same time
\* never exceeds nprocs, also with more tiles than nprocs.
C13_AtMostNprocsRunning == Cardinality(InFlight) <= cfg.nprocs

C13_Witness ==
    /\ cfg.nprocs >= 2
    /\ Cardinality(InFlight) = cfg.nprocs
    /\ Len(tasks) > cfg.nprocs
    /\ IsTiler
    /\ GridIterations(cfg) > cfg.nprocs

\* C14: with tile_overlap >= tile_size the orchestrator ends with a
\* configuration error before any tile is generated and before any worker
\* is dispatched; it never goes on with an empty or negative-sized grid.
C14_OverlapIsConfigError ==
    (IsTiler /\ cfg.tile_overlap >= cfg.tile_size) =>
        /\ pc \in { "start", "fatal" }
        /\ (pc = "fatal") => FatalKind = "configuration error"
        /\ features = << >>
        /\ tasks = << >>

\* C15: with -a no null-check task is ever dispatched, the training set is
\* empty, and every tile of the index is dispatched exactly once as an apply
\* export and is in the exported tile index.
C15_OnlyApplication ==
    (cfg.module = "preparedata_part1" /\ cfg.flag = "a") =>
        /\ TasksOf("nullcheck") = { }
        /\ TasksOf("train") = { }
        /\ tr_tiles = << >>
        /\ \A t, u \in TasksOf("apply") : t # u => tasks[t].num # tasks[u].num
        /\ (pc = "prune" \/ tindex.exported) =>
               \A k \in 0..(GridIterations(cfg) - 1) :
                   Cardinality({ t \in TasksOf("apply") : tasks[t].num = k }) = 1
        /\ tindex.exported =>
               /\ Len(tindex.features) = GridIterations(cfg)
               /\ \A k \in 1..Len(tindex.features) :
                      /\ IsTile(tindex.features[k], k - 1)
                      /\ tindex.features[k].training = "no"

C15_Witness ==
    /\ cfg.module = "preparedata_part1"
    /\ cfg.flag = "a"
    /\ tindex.exported
    /\ Len(tindex.features) >= 4

(***************************************************************************)
(* C16 - C18: the tile patcher.                                            *)
(***************************************************************************)
\* the first r.patch has run
Merged == patch.phase \in { "patched", "done" }

\* the trimmed raster of tile k
CoreOf(k) == patch.rast_list[CHOOSE j \in 1..Len(patch.tiles_list) : patch.tiles_list[j] = k]

\* the window the trimmed raster of tile k was written in
WindowOf(k) == patch.cut_regions[CHOOSE j \in 1..Len(patch.tiles_list) : patch.tiles_list[j] = k]

\* C16: for tiles that are cut-outs of the scene, trimmed by edge_cut cells with
\* tile_overlap >= edge_cut, every position of the merge window is covered by
\* the patch of the trimmed tiles and carries the class of the scene.
C16_TrimmedCoresCoverWindow ==
    (/\ Merged
     /\ patch.script = "postprocessing.patch"
     /\ ~patch.artifacts
     /\ patch.area_threshold = 0
     /\ patch.tile_overlap >= patch.edge_cut) =>
        \A x \in Cells(patch.window) :
            /\ x \in DOMAIN patch.patch_out
            /\ patch.patch_out[x] = SceneClass(patch, x)

\* edge_cut is half of the tile overlap, in the unit the script reads it in
HalfOverlap ==
    IF patch.script = "postprocessing.patch"
    THEN 2 * patch.edge_cut = patch.tile_overlap
    ELSE 2 * patch.edge_cut = patch.tile_overlap * patch.res

C18_UntrimmedOnlyInOuterBand ==
    (patch.phase = "done" /\ patch.b) =>
        \A x \in DOMAIN patch.output :
            /\ x \in DOMAIN patch.patch_out => patch.output[x] = patch.patch_out[x]
            /\ x \notin DOMAIN patch.patch_out =>
                   (x < patch.window.w \/ x >= patch.window.e)

(***************************************************************************)
(* C19, C20: the vectorize pipeline.                                       *)
(***************************************************************************)
\* C19: for every combination of -s and -c every step of the pipeline reads
\* the layer the step before it wrote, and the output vector derives from the
\* small-area-removed and from the dissolved layer.
C19_EachStepConsumesPrevious ==
    /\ \A j \in 2..Len(vect.log) : vect.log[j].input = vect.log[j - 1].output
    /\ vect.phase = "done" =>
           { "rmarea", "dissolve" } \subseteq vect.layers["output"].from

CanonicalColumns == { "cat", "class_number", "label" }

\* C20: after restore_corners(A, B) every position A covers carries A's
\* class_number, also where B does not cover it, every position only B covers
\* carries B's class_number, and the table has exactly the columns cat,
\* class_number and label.
C20_RestoreCornersPrefersA ==
    \A j \in 1..Len(vect.calls) :
        LET A == vect.layers[vect.calls[j].a].rows
            B == vect.layers[vect.calls[j].b].rows
            R == vect.layers[vect.calls[j].out]
        IN  /\ \A x \in DOMAIN A :
                  x \in DOMAIN R.rows /\ R.rows[x].class_number = A[x].class_number
            /\ \A x \in DOMAIN B \ DOMAIN A :
                  x \in DOMAIN R.rows /\ R.rows[x].class_number = B[x].class_number
            /\ R.cols = CanonicalColumns

\* C20 (amended): after restore_corners(A, B) every position both A and B
\* cover carries A's class_number, every position only B covers carries B's
\* class_number, a position only A covers is not in the result, and the table
\* has exactly the columns cat, class_number and label.
C20_RestoreCornersWithinB ==
    \A j \in 1..Len(vect.calls) :
        LET A == vect.layers[vect.calls[j].a].rows
            B == vect.layers[vect.calls[j].b].rows
            R == vect.layers[vect.calls[j].out]
        IN  /\ \A x \in DOMAIN A \cap DOMAIN B :
                  x \in DOMAIN R.rows /\ R.rows[x].class_number = A[x].class_number
            /\ \A x \in DOMAIN B \ DOMAIN A :
                  x \in DOMAIN R.rows /\ R.rows[x].class_number = B[x].class_number
            /\ DOMAIN R.rows = DOMAIN B
            /\ R.cols = CanonicalColumns

\* a completed restore_corners with a piece of each kind
C20_Witness ==
    /\ Len(vect.calls) = 1
    /\ LET A == vect.layers[vect.calls[1].a].rows
           B == vect.layers[vect.calls[1].b].rows
       IN  /\ DOMAIN A \ DOMAIN B # { }
           /\ DOMAIN B \ DOMAIN A # { }
           /\ DOMAIN A \cap DOMAIN B # { }

\* the input of the first v.generalize method=douglas
FirstDouglasInput ==
    vect.log[CHOOSE j \in 1..Len(vect.log) :
                 /\ vect.log[j].tool = "v.generalize douglas"
                 /\ \A i \in 1..(j - 1) : vect.log[i].tool # "v.generalize douglas"].input

\* C21: restore_corners is invoked once right after the smoothing iff -s and
\* once more at the end iff -c; the last invocation takes the input of the
\* first douglas pass as corner source; every layer handed to restore_corners
\* has the column class_number.
C21_RestorationsAndTheirInputs ==
    /\ \A j \in 1..Len(vect.invoked) :
           /\ "class_number" \in vect.layers[vect.invoked[j].a].cols
           /\ "class_number" \in vect.layers[vect.invoked[j].b].cols
    /\ \A j \in 1..Len(vect.invoked) :
           vect.invoked[j].out = "output" => vect.invoked[j].b = FirstDouglasInput
    /\ vect.phase \in { "smoothed", "generalized", "generalized2", "done" } =>
           Len(SelectSeq(vect.invoked, LAMBDA r : r.out = "tmp_s2"))
               = (IF vect.s THEN 1 ELSE 0)
    /\ vect.phase = "done" =>
           Len(SelectSeq(vect.invoked, LAMBDA r : r.out = "output"))
               = (IF vect.c THEN 1 ELSE 0)

(***************************************************************************)
(* C22 - C24: preparetraining.                                             *)
(***************************************************************************)
IsTraining == cfg.module = "preparetraining"

\* some label file of the run holds a value outside the allowed ones
BadLabelFile == \E k \in 1..Len(cfg.labels) : cfg.labels[k] = "unexpected"

\* C22: a label file with a feature whose class value is neither in
\* class_values nor no_class_value does not abort the run: the run is not
\* fatal and the label tasks of the tiles are dispatched.
C22_UnexpectedValueIsNotFatal ==
    (IsTraining /\ BadLabelFile) =>
        /\ pc # "fatal"
        /\ pc \in { "done", "exited" } => Len(tasks) = cfg.ntrain

\* C22 (amended): a label file with a feature whose class value is neither in
\* class_values nor no_class_value aborts the run: the run ends with a fatal
\* error (naming the unexpected value, unless the output directory existed),
\* no label task is ever dispatched and the run never completes.
C22_UnexpectedValueAborts ==
    (IsTraining /\ BadLabelFile) =>
        /\ tasks = << >>
        /\ pc \notin { "dispatch", "wait", "verify", "finish", "done" }
        /\ pc # "start" => fatalMsg # << >>
        /\ (pc # "start" /\ ~cfg.output_exists) =>
               FatalKind = "contains unexpected value"

C22_Witness ==
    /\ IsTraining
    /\ cfg.ntrain >= 2
    /\ cfg.labels[1] = "expected"
    /\ cfg.labels[2] = "unexpected"
    /\ pc = "exited"
    /\ FatalKind = "contains unexpected value"

\* the tile has no features, or all its features carry no_class_value
NoClassFeaturesOnly ==
    \A k \in 1..Len(worker.class_numbers) : worker.class_numbers[k] = worker.no_class_value

\* C23: for every no_class_value and class_values the label tile is written
\* as a uniform no_class_value raster with a warning exactly when it has no
\* features or all its features carry no_class_value, and the worker then
\* ends with exit code 0.
C23_EmptyTileFallback ==
    /\ worker.phase \in { "label_checked", "label_rasterized", "label_done" } =>
           /\ worker.warned <=> NoClassFeaturesOnly
           /\ worker.tile_empty <=> NoClassFeaturesOnly
    /\ worker.phase \in { "label_rasterized", "label_done" } =>
           (NoClassFeaturesOnly => worker.labelrast = { worker.no_class_value })
    /\ (worker.phase = "label_done" /\ NoClassFeaturesOnly) => worker.exit = 0

\* C24: in preparetraining, after a fatal error raised once the output
\* directory was created the exit cleanup has removed it; after a successful
\* run it is not in rm_dirs and stays; a directory that existed at start makes
\* the run fatal and is never deleted.
C24_OutputKeptOnlyOnSuccess ==
    IsTraining =>
        /\ (pc = "exited" /\ fatalMsg # << >> /\ ~cfg.output_exists) =>
               OutputDir \notin dirs
        /\ pc = "done" => OutputDir \notin Range(rm_dirs)
        /\ (pc = "exited" /\ fatalMsg = << >>) => OutputDir \in dirs
        /\ cfg.output_exists =>
               /\ OutputDir \in dirs
               /\ pc \in { "start", "fatal", "exited" }
               /\ pc # "start" => FatalKind = "Directory exists already"

C24_Witness ==
    /\ IsTraining
    /\ ~cfg.output_exists
    /\ pc = "exited"
    /\ FatalKind = "ERROR by processing"
    /\ Len(tasks) >= 2
    /\ OutputDir \notin dirs

(***************************************************************************)
(* C25 - C30: regions, removal lists, exceptions.                          *)
(***************************************************************************)
IsExport(t) == tasks[t].kind \in { "train", "apply" }

\* bounds and resolution of the tile with number k, from the grid arithmetic
WindowOfTile(k) ==
    LET stepmu == Step(cfg) * cfg.res
        w == RegW(cfg) + ColOf(cfg, k) * stepmu
        n == RegN(cfg) - RowOf(cfg, k) * stepmu
    IN  [ n |-> n, s |-> n - cfg.tile_size * cfg.res,
          e |-> w + cfg.tile_size * cfg.res, w |-> w, res |-> cfg.res ]

IsTmpMapset(d) == Len(d) = 2 /\ d[1] = "tmp_mapset"

\* C26: the mapset directory of every task that has been dispatched is in
\* rm_dirs (in every flag mode and batch), and after the exit cleanup of a run
\* whose dispatched tasks have all been waited for no temporary mapset is left.
C26_MapsetsInRemovalList ==
    /\ \A t \in 1..Len(tasks) : tasks[t].mapset \in Range(rm_dirs)
    /\ (pc = "exited" /\ \A t \in 1..Len(tasks) : tasks[t].returncode # None) =>
           \A d \in dirs : ~IsTmpMapset(d)

\* the export tasks dispatched for the tile of feature f
ExportsOf(f) ==
    { t \in 1..Len(tasks) : IsExport(t) /\ tasks[t].mapset = MapsetOf(f.fid) }

\* C27: every feature of the exported tile index has exactly one export task
\* (training or apply), a path and a training attribute other than "false".
C27_IndexedTilesAreExported ==
    tindex.exported =>
        \A j \in 1..Len(tindex.features) :
            /\ Cardinality(ExportsOf(tindex.features[j])) = 1
            /\ tindex.features[j].path # << >>
            /\ tindex.features[j].training # "false"

\* C28: once an exception has been raised in the dispatch loop of a batch the
\* run is over: the orchestrator is in its fatal exit, no later stage runs.
C28_ExceptionIsFatal ==
    raised # << >> =>
        /\ pc \in { "fatal", "exited" }
        /\ fatalMsg # << >>

\* C29: in each of the five orchestrators the current region differs from the
\* region the user had set only while that region is saved under ORIG_REGION,
\* and after the exit cleanup (normal end or fatal error) of a session that is
\* still in its mapset the current region is the user's region again.
C29_RegionRestored ==
    /\ LET rs == wind[SessionMapset]
       IN  /\ rs.cur # UserRegion => rs.saved = << UserRegion >>
           /\ rs.saved # << >> => rs.saved = << UserRegion >>
           /\ (pc = "exited" /\ curMapset = SessionMapset) => rs.cur = UserRegion
    /\ patch # NoPatch =>
           /\ patch.reg.cur # patch.user_region => patch.reg.saved = << patch.user_region >>
           /\ patch.reg.saved # << >> => patch.reg.saved = << patch.user_region >>
           /\ patch.phase = "exit" => patch.reg.cur = patch.user_region
    /\ vect # NoVect =>
           /\ vect.reg.cur # UserRegion => vect.reg.saved = << UserRegion >>
           /\ vect.reg.saved # << >> => vect.reg.saved = << UserRegion >>
           /\ vect.phase = "exit" => vect.reg.cur = UserRegion

\* a tiling run that set the region of the scene, dispatched tasks, ended
\* fatally and has run its exit cleanup
C29_Witness ==
    /\ IsTiler
    /\ pc = "exited"
    /\ fatalMsg # << >>
    /\ tasks # << >>
    /\ curMapset = SessionMapset
    /\ RasterRegion(cfg) # UserRegion
    /\ wind[SessionMapset] = RegionsOf(UserRegion)

\* C30: in postprocessing.patch the window of every trimmed tile is the
\* tile's extent less edge_cut cells of the tile's resolution on each side,
\* whatever the resolution of the region at the start, and with
\* area_threshold > 0 the small-area removal has been applied to the whole
\* untrimmed tile.
C30_TrimIsEdgeCutCells ==
    patch.script = "postprocessing.patch" =>
        \A j \in 1..Len(patch.cut_regions) :
            LET tile == RegionOf(<< patch.tmp[j] >>)
            IN  /\ patch.cut_regions[j].w = tile.w + patch.edge_cut * patch.res
                /\ patch.cut_regions[j].e = tile.e - patch.edge_cut * patch.res
                /\ patch.area_threshold > 0 =>
                       patch.rmarea[j] = RmArea(patch.tmp[j], patch.area_threshold)

====
